---- MODULE Spec2Model ----
(***************************************************************************)
(* A model of the content-extraction engine of backend/scraper/extractor.py *)
(* (class ContentExtractor): fetch_page, extract_content, extract_links     *)
(* and their helpers.                                                       *)
(*                                                                          *)
(* Conventions.                                                             *)
(*   - Python's Optional[T] is a sequence of length <= 1: None is <<>> and  *)
(*     a value v is <<v>>.                                                  *)
(*   - A Python str whose characters matter is a sequence of one-character  *)
(*     strings; a str that is only compared is a TLA+ string.               *)
(*   - An f-string message is a record of its parts.                        *)
(***************************************************************************)
EXTENDS Integers, Sequences, FiniteSets, TLC

VARIABLES
    f_pc,            \* fetch_page: position in the retry loop
    attempt,         \* fetch_page: the loop variable `attempt`
    last_error,      \* fetch_page: the local `last_error`
    f_url,           \* fetch_page: the argument `url`
    f_ret,           \* fetch_page: the returned (html, error) pair, once returned
    net_log,         \* every time.sleep and session.get fetch_page has made
    session_headers, \* self.session.headers (names of the configured headers)
    doc,             \* extract_links: the argument `html`, parsed
    doc_url,         \* extract_links: the argument `base_url`
    links_ret,       \* extract_links: what the call returned or raised, once it ended
    c_doc,           \* extract_content: the argument `html`, parsed
    c_track,         \* extract_content: the argument `track_containers`
    content_ret,     \* extract_content: the returned (text, containers), once returned
    c_main,          \* extract_content: the local `main_content` at the return
    sel_indices,     \* extract_content_from_selected_containers: `selected_indices`
    selected_ret,    \* extract_content_from_selected_containers: the returned text
    clean_in,        \* _clean_text: the text first handed to it
    clean_text,      \* _clean_text: the text after the calls made so far
    clean_count,     \* _clean_text: how many times it has been applied
    m_doc,           \* extract_metadata: the argument `html`, parsed
    m_url,           \* extract_metadata: the argument `url`
    m_detect,        \* extract_metadata: what detect() does if this call reaches it
    metadata_ret,    \* extract_metadata: the returned dictionary, once returned
    es_pc,           \* execute_scrape: position in the multi-chapter branch
    es_mode,         \* execute_scrape: scrape_request.mode
    es_selected,     \* execute_scrape: scrape_request.selected_chapters
    es_idx,          \* execute_scrape: the loop variable `idx`
    chapters_content, \* execute_scrape: the local `chapters_content`
    errors,          \* execute_scrape: the local `errors`
    es_calls,        \* every scrape_page call made so far: its url and its error
    es_book,         \* the chapters storage has saved, once it has
    es_response,     \* execute_scrape: the ScrapeResponse, once returned
    sim_urls,        \* _cluster_similar_urls: the argument `urls`
    sim_scores,      \* _calculate_url_similarity of every two of them, once computed
    sim_clusters,    \* _cluster_similar_urls: the returned clusters, once returned
    sim_pattern,     \* stage 2: the pattern of the largest cluster and the verdict
    mode_calls,      \* modes.py: the calls made so far, each with its arguments and result
    st_book,         \* StorageManager: the directory of the book (metadata, index, chapter files), once created
    st_adds,         \* every add_chapter_to_book call made so far: its arguments and its result
    st_read          \* get_chapter_content: the chapter_id asked for and what was returned

fetch_vars == <<f_pc, attempt, last_error, f_url, f_ret, net_log, session_headers>>
links_vars == <<doc, doc_url, links_ret>>
content_vars == <<c_doc, c_track, content_ret, c_main, sel_indices, selected_ret>>
clean_vars == <<clean_in, clean_text, clean_count>>
metadata_vars == <<m_doc, m_url, m_detect, metadata_ret>>
scrape_vars ==
    <<es_pc, es_mode, es_selected, es_idx, chapters_content, errors, es_calls, es_book,
      es_response>>

similarity_vars == <<sim_urls, sim_scores, sim_clusters, sim_pattern>>

modes_vars == <<mode_calls>>

storage_vars == <<st_book, st_adds, st_read>>

vars == <<fetch_vars, links_vars, content_vars, clean_vars, metadata_vars, scrape_vars, similarity_vars, modes_vars, storage_vars>>

\* What a fetch leaves alone.
not_fetch_vars == <<links_vars, content_vars, clean_vars, metadata_vars, scrape_vars, similarity_vars, modes_vars, storage_vars>>
\* What a link extraction leaves alone.
not_links_vars == <<fetch_vars, content_vars, clean_vars, metadata_vars, scrape_vars, similarity_vars, modes_vars, storage_vars>>
\* What a content extraction leaves alone.
not_content_vars == <<fetch_vars, links_vars, clean_vars, metadata_vars, scrape_vars, similarity_vars, modes_vars, storage_vars>>
\* What a text clean-up leaves alone.
not_clean_vars == <<fetch_vars, links_vars, content_vars, metadata_vars, scrape_vars, similarity_vars, modes_vars, storage_vars>>
\* What a metadata extraction leaves alone.
not_metadata_vars == <<fetch_vars, links_vars, content_vars, clean_vars, scrape_vars, similarity_vars, modes_vars, storage_vars>>
\* What a multi-chapter scrape leaves alone.
not_scrape_vars == <<fetch_vars, links_vars, content_vars, clean_vars, metadata_vars, similarity_vars, modes_vars, storage_vars>>
\* What a URL clustering leaves alone.
not_similarity_vars == <<fetch_vars, links_vars, content_vars, clean_vars, metadata_vars, scrape_vars, modes_vars, storage_vars>>
\* What a mode query leaves alone.
not_modes_vars == <<fetch_vars, links_vars, content_vars, clean_vars, metadata_vars, scrape_vars, similarity_vars, storage_vars>>
\* What a book storage leaves alone.
not_storage_vars == <<fetch_vars, links_vars, content_vars, clean_vars, metadata_vars, scrape_vars, similarity_vars, modes_vars>>

None == <<>>
Some(v) == <<v>>

(***************************************************************************)
(* Configuration fixed at construction (ContentExtractor.__init__).        *)
(***************************************************************************)
max_size_mb == 50
MiB == 1048576
max_size_bytes == max_size_mb * MiB
max_retries == 3

\* The names of the headers __init__ puts on the session.
ConfiguredHeaders ==
    {"User-Agent", "Accept", "Accept-Language", "Accept-Encoding", "Connection",
     "Upgrade-Insecure-Requests", "Sec-Fetch-Dest", "Sec-Fetch-Mode",
     "Sec-Fetch-Site", "Sec-Fetch-User", "Cache-Control"}

(***************************************************************************)
(* The URLs a fetch is asked for: scheme and netloc are what fetch_page     *)
(* reads (urlparse(url).scheme, .netloc).                                   *)
(***************************************************************************)
FetchUrls ==
    { [scheme |-> "https", netloc |-> "a.com", path |-> "/book/index.html"],
      [scheme |-> "http",  netloc |-> "b.org", path |-> "/"] }

\* referer = f"{domain.scheme}://{domain.netloc}/"
RefererOf(url) == [scheme |-> url.scheme, netloc |-> url.netloc, path |-> "/"]

\* delay = 2 ** attempt
RECURSIVE Pow2(_)
Pow2(n) == IF n = 0 THEN 1 ELSE 2 * Pow2(n - 1)

\* A faulty variant: the same delay before every retry.
BackoffDelay_Constant(a) == 2

BackoffDelay(a) == Pow2(a)

(***************************************************************************)
(* What one session.get can do.  kind: "timeout" (requests Timeout),       *)
(* "transport" (another RequestException), "unexpected" (any other         *)
(* Exception), "response" (a response came back).  For a response:         *)
(* status; content_length, the Content-Length header: None, or a decimal   *)
(* number, or -1 for a value int() rejects; body_bytes, the length of the  *)
(* decoded text encoded as UTF-8; body_ok, FALSE when reading the streamed *)
(* body fails with a RequestException; encoding, response.encoding.        *)
(***************************************************************************)
Statuses == {200, 204, 400, 403, 404, 429, 499, 500, 503}

ContentLengths ==
    {None, Some(0), Some(max_size_bytes), Some(max_size_bytes + 1),
     Some(104857601), Some(-1)}

BodySizes == {0, 1000, max_size_bytes, max_size_bytes + 1}

Encodings == {"utf-8", "ISO-8859-1"}

NoResponse(k) ==
    [kind |-> k, status |-> 0, content_length |-> None, body_bytes |-> 0,
     body_ok |-> TRUE, encoding |-> "utf-8"]

\* A 200 response; the fields the code never reads on its path (the body after a
\* rejected or unreadable Content-Length, the size of an unreadable body) are
\* left at their defaults.
OkResponses ==
    { [kind |-> "response", status |-> 200, content_length |-> cl, body_bytes |-> 0,
       body_ok |-> TRUE, encoding |-> "utf-8"] :
         cl \in {c \in ContentLengths : c # None /\ (c[1] < 0 \/ c[1] > max_size_bytes)} }
    \cup
    { [kind |-> "response", status |-> 200, content_length |-> cl, body_bytes |-> 0,
       body_ok |-> FALSE, encoding |-> "utf-8"] :
         cl \in {c \in ContentLengths : c = None \/ (c[1] >= 0 /\ c[1] <= max_size_bytes)} }
    \cup
    { [kind |-> "response", status |-> 200, content_length |-> cl, body_bytes |-> b,
       body_ok |-> TRUE, encoding |-> e] :
         cl \in {c \in ContentLengths : c = None \/ (c[1] >= 0 /\ c[1] <= max_size_bytes)},
         b \in BodySizes, e \in Encodings }

Outcomes ==
    { NoResponse("timeout"), NoResponse("transport"), NoResponse("unexpected") }
    \cup
    { [kind |-> "response", status |-> s, content_length |-> None, body_bytes |-> 0,
       body_ok |-> TRUE, encoding |-> "utf-8"] : s \in Statuses \ {200} }
    \cup OkResponses

\* f"{int(content_length) / (1024*1024):.2f}MB": the size in hundredths of a MB,
\* rounded to nearest (the products stay below 2^31).
MBHundredths(n) ==
    (n \div MiB) * 100 + (((n % MiB) * 100 + (MiB \div 2)) \div MiB)

\* An error message: its text, the number it names (a status code, or a size in
\* hundredths of MB; 0 for none) and the "(after N attempts)" suffix (0 for none).
Msg(t, n, a) == [text |-> t, num |-> n, after |-> a]

\* response.raise_for_status() raises HTTPError for 400 <= status < 600.
RaisesForStatus(status) == 400 <= status /\ status < 600

\* if response.encoding == 'ISO-8859-1': response.encoding = response.apparent_encoding
DecodeWith(o) == IF o.encoding = "ISO-8859-1" THEN "apparent" ELSE o.encoding

(***************************************************************************)
(* The handling of one attempt's outcome (the try body after session.get    *)
(* and the except clauses): either a return value, or the new last_error.   *)
(***************************************************************************)
\* A faulty variant: every return carries an error message.
Return_AlwaysError(html, error, read) ==
    [returns |-> TRUE, html |-> html, error |-> Some(Msg("Request failed", 0, 0)),
     last |-> None, body_read |-> read]

\* body_read: whether response.text was evaluated (the body downloaded).
Return(html, error, read) ==
    [returns |-> TRUE, html |-> html, error |-> error, last |-> None, body_read |-> read]
Retry(err, read) ==
    [returns |-> FALSE, html |-> None, error |-> None, last |-> Some(err), body_read |-> read]

\* A faulty variant: a 5xx status treated as terminal, like a client error.
HandleHTTPError_5xxTerminal(status) ==
    IF status = 429 THEN Retry(Msg("Rate limited (429)", 0, 0), FALSE)
    ELSE Return(None, Some(Msg("Request failed", status, 0)), FALSE)

\* A faulty variant: 429 and every other 4xx retried.
HandleHTTPError_4xxRetried(status) ==
    IF status = 429 THEN Retry(Msg("Rate limited (429)", 0, 0), FALSE)
    ELSE Retry(Msg("Request failed", status, 0), FALSE)

HandleHTTPError(status) ==
    IF status = 429 THEN Retry(Msg("Rate limited (429)", 0, 0), FALSE)
    ELSE IF 400 <= status /\ status < 500
         THEN Return(None, Some(Msg("Request failed", status, 0)), FALSE)
         ELSE Retry(Msg("Request failed", status, 0), FALSE)

\* A faulty variant: the Content-Length header is not consulted.
SizeGuardHeader_Off(o) == FALSE

\* if content_length and int(content_length) > self.max_size_bytes
SizeGuardHeader(o) ==
    o.content_length # None /\ o.content_length[1] > max_size_bytes

\* if len(content.encode('utf-8')) > self.max_size_bytes
SizeGuardBody(o) == o.body_bytes > max_size_bytes

HandleOutcome(o) ==
    CASE o.kind = "timeout"    -> Retry(Msg("Request timed out", 0, 0), FALSE)
      [] o.kind = "transport"  -> Retry(Msg("Request failed", 0, 0), FALSE)
      [] o.kind = "unexpected" -> Retry(Msg("Unexpected error", 0, 0), FALSE)
      [] OTHER ->
            IF RaisesForStatus(o.status) THEN HandleHTTPError(o.status)
            ELSE IF o.content_length # None /\ o.content_length[1] < 0
                 THEN Retry(Msg("Unexpected error", 0, 0), FALSE)  \* int() raised ValueError
            ELSE IF SizeGuardHeader(o)
                 THEN Return(None, Some(Msg("Content too large",
                                            MBHundredths(o.content_length[1]), 0)), FALSE)
            ELSE IF ~o.body_ok
                 THEN Retry(Msg("Request failed", 0, 0), TRUE)     \* response.text raised
            ELSE IF SizeGuardBody(o)
                 THEN Return(None, Some(Msg("Content exceeds size limit", 0, 0)), TRUE)
            ELSE Return(Some([bytes |-> o.body_bytes, decoded |-> DecodeWith(o)]), None, TRUE)

\* A faulty variant: the Referer is added on the first attempt too.
RequestHeaders_AlwaysReferer(a, url) ==
    [names |-> session_headers \cup {"Referer"}, referer |-> Some(RefererOf(url))]

\* request_headers = self.session.headers.copy(); Referer added on a retry.
RequestHeaders(a, url) ==
    [names |-> session_headers \cup (IF a > 0 THEN {"Referer"} ELSE {}),
     referer |-> IF a > 0 THEN Some(RefererOf(url)) ELSE None]

(***************************************************************************)
(* fetch_page as a state machine.  f_pc = "loop": at the head of            *)
(* `for attempt in range(max_retries)`; "get": the backoff sleep of this    *)
(* attempt is done; "returned": fetch_page has returned f_ret[1].           *)
(***************************************************************************)
\* No fetch is under way.
FetchIdle ==
    /\ f_pc = "idle"
    /\ attempt = 0
    /\ last_error = None
    /\ f_url = <<>>
    /\ f_ret = None
    /\ net_log = <<>>
    /\ session_headers = ConfiguredHeaders

FetchInit ==
    /\ f_pc = "loop"
    /\ attempt = 0
    /\ last_error = None
    /\ f_url \in FetchUrls
    /\ f_ret = None
    /\ net_log = <<>>
    /\ session_headers = ConfiguredHeaders

\* if attempt > 0: time.sleep(2 ** attempt)
Backoff ==
    /\ f_pc = "loop"
    /\ attempt < max_retries
    /\ attempt > 0
    /\ net_log' = Append(net_log, [op |-> "sleep", delay |-> BackoffDelay(attempt),
                                   attempt |-> attempt, headers |-> None,
                                   outcome |-> None, body_read |-> FALSE])
    /\ f_pc' = "get"
    /\ UNCHANGED <<attempt, last_error, f_url, f_ret, session_headers>>
    /\ UNCHANGED not_fetch_vars

\* session.get(...) and everything the loop body does with its outcome.
Get ==
    /\ \/ f_pc = "get"
       \/ f_pc = "loop" /\ attempt = 0 /\ attempt < max_retries
    /\ \E o \in Outcomes :
         LET h == HandleOutcome(o) IN
         /\ net_log' = Append(net_log, [op |-> "get", delay |-> 0, attempt |-> attempt,
                                        headers |-> Some(RequestHeaders(attempt, f_url)),
                                        outcome |-> Some(o), body_read |-> h.body_read])
         /\ IF h.returns
            THEN /\ f_ret' = Some([html |-> h.html, error |-> h.error])
                 /\ f_pc' = "returned"
                 /\ UNCHANGED <<attempt, last_error>>
            ELSE /\ last_error' = h.last
                 /\ attempt' = attempt + 1
                 /\ f_pc' = "loop"
                 /\ UNCHANGED f_ret
    /\ UNCHANGED <<f_url, session_headers>>
    /\ UNCHANGED not_fetch_vars

\* return None, f"{last_error} (after {max_retries} attempts)"
Exhausted ==
    /\ f_pc = "loop"
    /\ attempt >= max_retries
    /\ f_ret' = Some([html |-> None,
                      error |-> Some(IF last_error = None
                                     THEN Msg("None", 0, max_retries)
                                     ELSE Msg(last_error[1].text, last_error[1].num,
                                              max_retries))])
    /\ f_pc' = "returned"
    /\ UNCHANGED <<attempt, last_error, f_url, net_log, session_headers>>
    /\ UNCHANGED not_fetch_vars

FetchNext == Backoff \/ Get \/ Exhausted

\* No link extraction is under way.
LinksIdle ==
    /\ doc = <<>>
    /\ doc_url = <<>>
    /\ links_ret = None

\* No content extraction is under way.
ContentIdle ==
    /\ c_doc = <<>>
    /\ c_track = FALSE
    /\ content_ret = None
    /\ c_main = None
    /\ sel_indices = None
    /\ selected_ret = None

\* No text clean-up is under way.
CleanIdle ==
    /\ clean_in = <<>>
    /\ clean_text = <<>>
    /\ clean_count = 0

\* No metadata extraction is under way.
MetadataIdle ==
    /\ m_doc = <<>>
    /\ m_url = <<>>
    /\ m_detect = None
    /\ metadata_ret = None

\* No multi-chapter scrape is under way.
ScrapeIdle ==
    /\ es_pc = "idle"
    /\ es_mode = ""
    /\ es_selected = None
    /\ es_idx = 0
    /\ chapters_content = <<>>
    /\ errors = <<>>
    /\ es_calls = <<>>
    /\ es_book = None
    /\ es_response = None

\* No URL clustering is under way.
SimilarityIdle ==
    /\ sim_urls = <<>>
    /\ sim_scores = <<>>
    /\ sim_clusters = <<>>
    /\ sim_pattern = <<>>

\* No mode query is under way.
ModesIdle ==
    /\ mode_calls = <<>>

\* No book storage is under way.
StorageIdle ==
    /\ st_book = <<>>
    /\ st_adds = <<>>
    /\ st_read = <<>>

\* Every operation but the named one is idle.
OthersIdle(operation) ==
    /\ IF operation = "fetch_page" THEN TRUE ELSE FetchIdle
    /\ IF operation = "extract_links" THEN TRUE ELSE LinksIdle
    /\ IF operation = "extract_content" THEN TRUE ELSE ContentIdle
    /\ IF operation = "_clean_text" THEN TRUE ELSE CleanIdle
    /\ IF operation = "extract_metadata" THEN TRUE ELSE MetadataIdle
    /\ IF operation = "execute_scrape" THEN TRUE ELSE ScrapeIdle
    /\ IF operation = "_cluster_similar_urls" THEN TRUE ELSE SimilarityIdle
    /\ IF operation = "is_mode_supported" THEN TRUE ELSE ModesIdle
    /\ IF operation = "add_chapter_to_book" THEN TRUE ELSE StorageIdle

\* A call of fetch_page, nothing else under way.
InitFetch == FetchInit /\ OthersIdle("fetch_page")

SpecFetch == InitFetch /\ [][FetchNext]_vars

(***************************************************************************)
(* Strings.  A Python str whose characters are inspected is the sequence   *)
(* of its characters.                                                       *)
(***************************************************************************)
Chars(s) == [i \in 1..Len(s) |-> SubSeq(s, i, i)]

Digits == {"0", "1", "2", "3", "4", "5", "6", "7", "8", "9"}
UpperCase == Chars("ABCDEFGHIJKLMNOPQRSTUVWXYZ")
LowerCase == Chars("abcdefghijklmnopqrstuvwxyz")
Letters == {UpperCase[i] : i \in 1..26} \cup {LowerCase[i] : i \in 1..26}
Whitespace == {" ", "\n", "\t", "\r"}

\* str.isdigit() / the regex class \d, on the characters the model uses
IsDigit(c) == c \in Digits
\* str.isspace() / the regex class \s
IsSpace(c) == c \in Whitespace
\* the regex class \w
IsWordChar(c) == c \in Letters \/ c \in Digits \/ c = "_"

\* str.lower() on one character
LowerChar(c) ==
    IF \E i \in 1..26 : UpperCase[i] = c
    THEN LowerCase[CHOOSE i \in 1..26 : UpperCase[i] = c]
    ELSE c

\* str.lower()
Lower(s) == [i \in 1..Len(s) |-> LowerChar(s[i])]

\* int(s) for a string of decimal digits
DigitValue(c) == CHOOSE d \in 0..9 : Chars("0123456789")[d + 1] = c
RECURSIVE ParseInt(_)
ParseInt(s) ==
    IF s = <<>> THEN 0 ELSE 10 * ParseInt(SubSeq(s, 1, Len(s) - 1)) + DigitValue(s[Len(s)])

\* s.startswith(p)
StartsWith(s, p) == Len(p) <= Len(s) /\ SubSeq(s, 1, Len(p)) = p

\* p in s (substring)
Contains(s, p) == \E i \in 1..(Len(s) - Len(p) + 1) : SubSeq(s, i, i + Len(p) - 1) = p

\* s.strip(): leading and trailing whitespace removed
RECURSIVE LStrip(_)
LStrip(s) == IF s # <<>> /\ IsSpace(Head(s)) THEN LStrip(Tail(s)) ELSE s
RECURSIVE RStrip(_)
RStrip(s) ==
    IF s # <<>> /\ IsSpace(s[Len(s)]) THEN RStrip(SubSeq(s, 1, Len(s) - 1)) ELSE s
Strip(s) == RStrip(LStrip(s))

\* s.strip(c) for one character c
RECURSIVE LStripChar(_, _)
LStripChar(s, c) == IF s # <<>> /\ Head(s) = c THEN LStripChar(Tail(s), c) ELSE s
RECURSIVE RStripChar(_, _)
RStripChar(s, c) ==
    IF s # <<>> /\ s[Len(s)] = c THEN RStripChar(SubSeq(s, 1, Len(s) - 1), c) ELSE s
StripChar(s, c) == RStripChar(LStripChar(s, c), c)

\* The position of the first character of s that is in cs, or Len(s) + 1.
FirstOf(s, cs) ==
    IF \E i \in 1..Len(s) : s[i] \in cs
    THEN CHOOSE k \in 1..Len(s) : s[k] \in cs /\ \A j \in 1..(k - 1) : s[j] \notin cs
    ELSE Len(s) + 1

\* s.split(c): the pieces between the occurrences of c (empty pieces kept)
RECURSIVE SplitOn(_, _)
SplitAt(s, c, i) ==
    IF i > Len(s) THEN <<s>>
    ELSE <<SubSeq(s, 1, i - 1)>> \o SplitOn(SubSeq(s, i + 1, Len(s)), c)
SplitOn(s, c) == SplitAt(s, c, FirstOf(s, {c}))

\* ''.join(parts)
RECURSIVE Concat(_)
Concat(parts) == IF parts = <<>> THEN <<>> ELSE Head(parts) \o Concat(Tail(parts))

\* str(n) for 0 <= n < 100
IntChars(n) ==
    IF n < 10 THEN <<Chars("0123456789")[n + 1]>>
    ELSE <<Chars("0123456789")[(n \div 10) + 1], Chars("0123456789")[(n % 10) + 1]>>

\* The number of digits s starts with.
RECURSIVE LeadingDigits(_)
LeadingDigits(t) == IF t # <<>> /\ IsDigit(Head(t)) THEN 1 + LeadingDigits(Tail(t)) ELSE 0

\* re.findall(r'\d+', s): the maximal runs of digits of s, in order
RECURSIVE FindAllNumbers(_)
NumbersCut(rest, j) ==
    <<SubSeq(rest, 1, j)>> \o FindAllNumbers(SubSeq(rest, j + 1, Len(rest)))
NumbersFrom(s, i) ==
    IF i > Len(s) THEN <<>>
    ELSE NumbersCut(SubSeq(s, i, Len(s)), LeadingDigits(SubSeq(s, i, Len(s))))
FindAllNumbers(s) == NumbersFrom(s, FirstOf(s, Digits))

(***************************************************************************)
(* URLs (urllib.parse).  A URL is the string of its characters.  The hrefs  *)
(* of the model have no "." or ".." segments, so urljoin's removal of dot   *)
(* segments is not modelled.                                                *)
(***************************************************************************)
\* The scheme of u (lower-cased) and the rest after "scheme:", ":" being at i;
\* no scheme: <<>>.
SchemeSplitAt(u, i) ==
    IF i > 1 /\ i <= Len(u) /\ \A j \in 1..(i - 1) : u[j] \in Letters
    THEN [scheme |-> Lower(SubSeq(u, 1, i - 1)), rest |-> SubSeq(u, i + 1, Len(u))]
    ELSE [scheme |-> <<>>, rest |-> u]
SchemeSplit(u) == SchemeSplitAt(u, FirstOf(u, {":"}))

\* urlsplit raises ValueError("Invalid IPv6 URL") for unbalanced brackets.
InvalidNetloc(netloc) ==
    (Contains(netloc, <<"[">>) /\ ~Contains(netloc, <<"]">>))
    \/ (Contains(netloc, <<"]">>) /\ ~Contains(netloc, <<"[">>))

\* The path ends at pend, where the "?query#fragment" tail starts.
ParsePathAt(scheme, netloc, rest, pend) ==
    [ok |-> ~InvalidNetloc(netloc), scheme |-> scheme, netloc |-> netloc,
     path |-> SubSeq(rest, 1, pend - 1), tail |-> SubSeq(rest, pend, Len(rest))]
ParsePath(scheme, netloc, rest) == ParsePathAt(scheme, netloc, rest, FirstOf(rest, {"?", "#"}))

\* after is what follows "//": the netloc ends at locend.
ParseNetlocAt(scheme, after, locend) ==
    ParsePath(scheme, SubSeq(after, 1, locend - 1), SubSeq(after, locend, Len(after)))
ParseNetloc(scheme, after) == ParseNetlocAt(scheme, after, FirstOf(after, {"/", "?", "#"}))

ParseAfterScheme(ss) ==
    IF StartsWith(ss.rest, <<"/", "/">>)
    THEN ParseNetloc(ss.scheme, SubSeq(ss.rest, 3, Len(ss.rest)))
    ELSE ParsePath(ss.scheme, <<>>, ss.rest)

\* urlparse(u): scheme, netloc, path, and tail (the "?query#fragment" part);
\* ok is FALSE when urlparse raises ValueError.
UrlParse(u) == ParseAfterScheme(SchemeSplit(u))

\* urlunparse
UrlUnparse(scheme, netloc, path, tail) ==
    scheme \o <<":", "/", "/">> \o netloc \o path \o tail

\* The directory of a path: the path up to and including its last "/".
RECURSIVE DirName(_)
DirName(path) ==
    IF path = <<>> \/ path[Len(path)] = "/" THEN path
    ELSE DirName(SubSeq(path, 1, Len(path) - 1))

Joined(url) == [ok |-> TRUE, url |-> url]

\* urljoin of the parsed base b and the parsed reference h
UrlJoinParsed(base, href, b, h) ==
    IF ~h.ok \/ ~b.ok THEN [ok |-> FALSE, url |-> <<>>]
    ELSE IF href = <<>> THEN Joined(base)
    ELSE IF h.scheme # <<>> /\ h.scheme # b.scheme THEN Joined(href)
    ELSE Joined(UrlUnparse(
            b.scheme,
            IF h.netloc # <<>> THEN h.netloc ELSE b.netloc,
            IF h.netloc # <<>> THEN h.path
            ELSE IF h.path = <<>> THEN b.path
            ELSE IF h.path[1] = "/" THEN h.path
            ELSE (IF b.path = <<>> THEN <<"/">> ELSE DirName(b.path)) \o h.path,
            IF h.netloc = <<>> /\ h.path = <<>> /\ ~(h.tail # <<>> /\ h.tail[1] = "?")
            THEN SubSeq(b.tail, 1, FirstOf(b.tail, {"#"}) - 1) \o h.tail ELSE h.tail))

\* urljoin(base, href): [ok, url]; ok is FALSE when it raises ValueError.
UrlJoin(base, href) == UrlJoinParsed(base, href, UrlParse(base), UrlParse(href))

\* urlparse(url).netloc
Netloc(url) == UrlParse(url).netloc

(***************************************************************************)
(* The parsed document (BeautifulSoup).  A node is a record: tag, the tag   *)
(* name ("#text" for a NavigableString, "[document]" for the soup itself);  *)
(* attrs, its attributes (an absent attribute is None, class is the list    *)
(* of class tokens); kids, its children in document order; text, the        *)
(* characters of a NavigableString.  Two nodes are equal when their names,  *)
(* attributes and contents are equal, which is Tag.__eq__.                  *)
(***************************************************************************)
NoAttrs ==
    [id |-> None, class |-> <<>>, href |-> None, role |-> None, rel |-> None,
     lang |-> None, name |-> None, property |-> None, http_equiv |-> None,
     content |-> None]

Elem(tag, attrs, kids) == [tag |-> tag, attrs |-> attrs, kids |-> kids, text |-> <<>>]
TextNode(s) == [tag |-> "#text", attrs |-> NoAttrs, kids |-> <<>>, text |-> Chars(s)]
Document(kids) == Elem("[document]", NoAttrs, kids)

\* isinstance(node, Tag)
IsTag(n) == n.tag # "#text"

FirstOrNone(q) == IF q = <<>> THEN None ELSE Some(q[1])

\* for element in soup([...]): element.decompose()
RECURSIVE Decompose(_, _)
DecomposeKids(n, tags, keep) ==
    [n EXCEPT !.kids = [i \in 1..Len(keep) |-> Decompose(keep[i], tags)]]
Decompose(n, tags) == DecomposeKids(n, tags, SelectSeq(n.kids, LAMBDA k : k.tag \notin tags))

\* node.find_all(): every descendant Tag, in document order
RECURSIVE FindAll(_)
FindAll(n) ==
    Concat([i \in 1..Len(n.kids) |->
              IF IsTag(n.kids[i]) THEN <<n.kids[i]>> \o FindAll(n.kids[i]) ELSE <<>>])

\* node.find_all(names)
FindAllTags(n, tags) == SelectSeq(FindAll(n), LAMBDA e : e.tag \in tags)

\* node.find_all(names, recursive=False)
ChildTags(n, tags) == SelectSeq(n.kids, LAMBDA k : IsTag(k) /\ k.tag \in tags)

\* node.find(name): the first descendant of that name, or None
Find(n, tag) == FirstOrNone(FindAllTags(n, {tag}))

\* node.find_all('a', href=True)
FindAllLinks(n) == SelectSeq(FindAll(n), LAMBDA e : e.tag = "a" /\ e.attrs.href # None)

\* every string under the node, in document order
RECURSIVE AllStrings(_)
AllStrings(n) ==
    IF ~IsTag(n) THEN <<n.text>>
    ELSE Concat([i \in 1..Len(n.kids) |-> AllStrings(n.kids[i])])

\* node.get_text(): the strings joined
GetText(n) == Concat(AllStrings(n))

\* each string stripped, the empty ones dropped, joined
JoinStripped(ss) ==
    Concat(SelectSeq([i \in 1..Len(ss) |-> Strip(ss[i])], LAMBDA t : t # <<>>))

\* node.get_text(strip=True)
GetTextStrip(n) == JoinStripped(AllStrings(n))

\* A CSS selector of the forms the code uses: a tag name, [role="v"], [rel="v"],
\* .class, #id.
SelTag(t)   == [kind |-> "tag", val |-> t]
SelRole(v)  == [kind |-> "role", val |-> v]
SelClass(c) == [kind |-> "class", val |-> c]
SelId(i)    == [kind |-> "id", val |-> i]
SelRel(v)   == [kind |-> "rel", val |-> v]

Matches(n, sel) ==
    CASE sel.kind = "tag"   -> n.tag = sel.val
      [] sel.kind = "role"  -> n.attrs.role = Some(sel.val)
      [] sel.kind = "class" -> \E i \in 1..Len(n.attrs.class) : n.attrs.class[i] = sel.val
      [] sel.kind = "id"    -> n.attrs.id = Some(sel.val)
      [] sel.kind = "rel"   -> n.attrs.rel = Some(sel.val)

\* soup.select_one(selector): the first match in document order, or None
SelectOne(soup, sel) == FirstOrNone(SelectSeq(FindAll(soup), LAMBDA e : Matches(e, sel)))

\* The loop `for selector in [...]: main_content = soup.select_one(selector);
\* if main_content: break`
RECURSIVE FirstSelected(_, _)
SelectedOrNext(m, soup, sels) == IF m # None THEN m ELSE FirstSelected(soup, sels)
FirstSelected(soup, sels) ==
    IF sels = <<>> THEN None
    ELSE SelectedOrNext(SelectOne(soup, Head(sels)), soup, Tail(sels))

\* if not main_content: main_content = soup.find('body');
\* if not main_content: main_content = soup
MainContentOf(m, body, soup) ==
    IF m # None THEN m[1] ELSE IF body # None THEN body[1] ELSE soup

MainContent(soup, sels) == MainContentOf(FirstSelected(soup, sels), Find(soup, "body"), soup)

ContentSelectors ==
    <<SelTag("article"), SelTag("main"), SelRole("main"), SelClass("content"),
      SelClass("post-content"), SelClass("article-content"), SelId("content"),
      SelId("main"), SelClass("entry-content")>>

LinkSelectors ==
    ContentSelectors \o
    <<SelClass("chapter-list"), SelClass("toc"), SelClass("table-of-contents")>>

(***************************************************************************)
(* URL similarity, clustering and the sequential pattern.  A float the     *)
(* code computes as a quotient is the rational [num, den]; the comparisons  *)
(* are exact.                                                               *)
(***************************************************************************)
Rat(n, d) == [num |-> n, den |-> d]
RatGE(a, b) == a.num * b.den >= b.num * a.den
RatGT(a, b) == a.num * b.den > b.num * a.den
RatEQ(a, b) == a.num * b.den = b.num * a.den

\* ''.join(c for c in seg if not c.isdigit())
NoDigits(seg) == SelectSeq(seg, LAMBDA c : ~IsDigit(c))

\* parsed.path.strip('/').split('/')
PathSegments(url) == SplitOn(StripChar(UrlParse(url).path, "/"), "/")

\* Only identical segments score.
SegmentScore_ExactOnly(seg1, seg2) == IF seg1 = seg2 THEN 10 ELSE 0

\* The score of one pair of segments, in tenths: 10 when equal, 9 when equal
\* after removing the digits and not empty then, else 0.
SegmentScore(seg1, seg2) ==
    IF seg1 = seg2 THEN 10
    ELSE IF NoDigits(seg1) = NoDigits(seg2) /\ NoDigits(seg1) # <<>> THEN 9
    ELSE 0

RECURSIVE SumSeq(_)
SumSeq(q) == IF q = <<>> THEN 0 ELSE Head(q) + SumSeq(Tail(q))

\* The hosts are not compared.
SimilarityOf_AnyHost(netloc1, netloc2, path1, path2) ==
    IF Len(path1) # Len(path2) THEN Rat(0, 1)
    ELSE IF Len(path1) = 0 THEN Rat(0, 1)
    ELSE Rat(SumSeq([i \in 1..Len(path1) |-> SegmentScore(path1[i], path2[i])]),
             10 * Len(path1))

SimilarityOf(netloc1, netloc2, path1, path2) ==
    IF netloc1 # netloc2 THEN Rat(0, 1)
    ELSE IF Len(path1) # Len(path2) THEN Rat(0, 1)
    ELSE IF Len(path1) = 0 THEN Rat(0, 1)
    ELSE Rat(SumSeq([i \in 1..Len(path1) |-> SegmentScore(path1[i], path2[i])]),
             10 * Len(path1))

_calculate_url_similarity(url1, url2) ==
    SimilarityOf(Netloc(url1), Netloc(url2), PathSegments(url1), PathSegments(url2))

Threshold == Rat(9, 10)

\* sorted(key=len, reverse=True): a stable sort, the longest first
RECURSIVE InsertBySize(_, _)
InsertBySize(sorted, c) ==
    IF sorted = <<>> THEN <<c>>
    ELSE IF Len(Head(sorted)) >= Len(c) THEN <<Head(sorted)>> \o InsertBySize(Tail(sorted), c)
    ELSE <<c>> \o sorted

RECURSIVE SortBySize(_)
SortBySize(cs) ==
    IF cs = <<>> THEN <<>>
    ELSE InsertBySize(SortBySize(SubSeq(cs, 1, Len(cs) - 1)), cs[Len(cs)])

\* The later, unused URLs the seed i absorbs.
Absorbed(urls, i, used) ==
    {j \in (i + 1)..Len(urls) :
        j \notin used
        /\ RatGE(_calculate_url_similarity(urls[i].url, urls[j].url), Threshold)}

\* if len(cluster) > 1: clusters.append(cluster)
KeepCluster(members, rest) == IF Len(members) > 1 THEN <<members>> \o rest ELSE rest

\* The greedy pass of _cluster_similar_urls from seed index i on: the clusters as
\* sequences of indices into urls.
RECURSIVE GreedyClusters(_, _, _)
GreedySeed(urls, i, used, absorbed) ==
    KeepCluster(SelectSeq([k \in 1..Len(urls) |-> k], LAMBDA k : k = i \/ k \in absorbed),
                GreedyClusters(urls, i + 1, used \cup {i} \cup absorbed))
GreedyClusters(urls, i, used) ==
    IF i > Len(urls) THEN <<>>
    ELSE IF i \in used THEN GreedyClusters(urls, i + 1, used)
    ELSE GreedySeed(urls, i, used, Absorbed(urls, i, used))

ClustersAt(urls, idx) == [c \in 1..Len(idx) |-> [k \in 1..Len(idx[c]) |-> urls[idx[c][k]]]]

_cluster_similar_urls(urls) ==
    IF Len(urls) < 2 THEN (IF urls # <<>> THEN <<urls>> ELSE <<>>)
    ELSE ClustersAt(urls, SortBySize(GreedyClusters(urls, 1, {})))

LastOrNone(numbers) ==
    IF numbers = <<>> THEN None ELSE Some(ParseInt(numbers[Len(numbers)]))

\* int(re.findall(r'\d+', url)[-1]), or None when the URL has no digit
LastNumber(url) == LastOrNone(FindAllNumbers(url))

SetMin(S) == CHOOSE x \in S : \A y \in S : x <= y
SetMax(S) == CHOOSE x \in S : \A y \in S : x >= y

\* coverage = actual_count / expected_count if expected_count > 0 else 0
Coverage(actual_count, expected_count) ==
    IF expected_count > 0 THEN Rat(actual_count, expected_count) ELSE Rat(0, 1)

\* Gaps cost nothing.
Confidence_NoPenalty(coverage) == Rat(1, 1)

\* 0.5 * cluster_size_ratio + 0.5 * (1.0 if coverage >= 0.5 else coverage * 2),
\* cluster_size_ratio being len(cluster) / len(cluster) = 1
Confidence(coverage) ==
    IF RatGE(coverage, Rat(1, 2)) THEN Rat(1, 1)
    ELSE Rat(coverage.den + 2 * coverage.num, 2 * coverage.den)

PatternOf(min_num, max_num, unique_numbers, coverage) ==
    [min |-> min_num, max |-> max_num, count |-> unique_numbers,
     coverage |-> coverage, confidence |-> Confidence(coverage),
     gaps |-> (max_num - min_num + 1) - unique_numbers]

PatternOfRange(min_num, max_num, unique_numbers) ==
    PatternOf(min_num, max_num, unique_numbers,
              Coverage(unique_numbers, max_num - min_num + 1))

PatternOfNumbers(numbers) ==
    PatternOfRange(SetMin(numbers), SetMax(numbers), Cardinality(numbers))

\* url_numbers: the numbers of the URLs of the cluster that have one
PatternOfUrlNumbers(url_numbers) ==
    IF Len(url_numbers) < 2 THEN None
    ELSE Some(PatternOfNumbers({url_numbers[i][1] : i \in 1..Len(url_numbers)}))

\* _detect_sequential_pattern(cluster): None, or the pattern record
_detect_sequential_pattern(cluster) ==
    IF Len(cluster) < 2 THEN None
    ELSE PatternOfUrlNumbers(
             SelectSeq([i \in 1..Len(cluster) |-> LastNumber(cluster[i].url)],
                       LAMBDA n : n # None))

(***************************************************************************)
(* extract_links(html, base_url).  The soup is the parsed html.             *)
(***************************************************************************)
LinkNoiseTags == {"script", "style", "nav", "header", "footer", "aside"}

skip_patterns ==
    <<"home", "about", "contact", "login", "register", "search",
      "privacy", "terms", "policy", "rss", "subscribe", "follow",
      "twitter", "facebook", "share", "comment", "next", "previous",
      "prev", "download", "print", "bookmark", "archive", "latest",
      "recent", "popular", "tag", "category">>

ContainsAny(lower_text, patterns) ==
    \E i \in 1..Len(patterns) : Contains(lower_text, Chars(patterns[i]))

\* any(pattern in lower_text for pattern in skip_patterns)
IsNavigational(link_text) == ContainsAny(Lower(link_text), skip_patterns)

Link(name, url) == [name |-> name, url |-> url]

\* link.get('href', '').strip()
Href(a) == Strip(a.attrs.href[1])

\* seen_urls left empty: no URL is ever remembered.
SeenUrls_Forgotten(links) == {}

\* seen_urls: the URLs of the links kept so far
SeenUrls(links) == {links[k].url : k \in 1..Len(links)}

\* The loop of lines 746-784 from link i on: the candidates, and whether urljoin
\* or urlparse raised.
RECURSIVE CollectCandidates(_, _, _, _)
CollectJoined(all_links, i, base_url, candidate_links, joined, link_text) ==
    IF ~joined.ok THEN [raised |-> TRUE, links |-> <<>>]
    ELSE CollectCandidates(
             all_links, i + 1, base_url,
             IF \/ Netloc(joined.url) # Netloc(base_url)
                \/ joined.url \in SeenUrls(candidate_links)
                \/ link_text = <<>>
                \/ IsNavigational(link_text)
             THEN candidate_links
             ELSE Append(candidate_links, Link(link_text, joined.url)))
CollectHref(all_links, i, base_url, candidate_links, href) ==
    IF href = <<>> \/ StartsWith(href, <<"#">>)
    THEN CollectCandidates(all_links, i + 1, base_url, candidate_links)
    ELSE CollectJoined(all_links, i, base_url, candidate_links,
                       UrlJoin(base_url, href), GetTextStrip(all_links[i]))
CollectCandidates(all_links, i, base_url, candidate_links) ==
    IF i > Len(all_links) THEN [raised |-> FALSE, links |-> candidate_links]
    ELSE CollectHref(all_links, i, base_url, candidate_links, Href(all_links[i]))

\* \b before position i of s
BoundaryBefore(s, i) == i = 1 \/ ~IsWordChar(s[i - 1])
\* \b after position i of s
BoundaryAfter(s, i) == i = Len(s) \/ ~IsWordChar(s[i + 1])

\* re.search(r'\bchapter\b', lower_text)
MatchesChapterWord(t) ==
    \E i \in 1..(Len(t) - 6) :
        /\ SubSeq(t, i, i + 6) = Chars("chapter")
        /\ BoundaryBefore(t, i)
        /\ BoundaryAfter(t, i + 6)

\* The first position from i on that holds no whitespace.
RECURSIVE SkipSpaces(_, _)
SkipSpaces(t, i) == IF i <= Len(t) /\ IsSpace(t[i]) THEN SkipSpaces(t, i + 1) ELSE i

DigitAt(t, k) == k <= Len(t) /\ IsDigit(t[k])

\* re.search(r'\bch\.?\s*\d+', lower_text)
MatchesChNumber(t) ==
    \E i \in 1..(Len(t) - 2) :
        /\ SubSeq(t, i, i + 1) = Chars("ch")
        /\ BoundaryBefore(t, i)
        /\ DigitAt(t, SkipSpaces(t, IF t[i + 2] = "." THEN i + 3 ELSE i + 2))

PrefixEndsAt(t, n) == n >= 1 /\ n < Len(t) /\ t[n + 1] \in {".", ")", ":"}

\* re.search(r'^\d+[\.\):]', link_text)
MatchesNumberPrefix(t) == PrefixEndsAt(t, LeadingDigits(t))

\* re.search(r'^\d+$', link_text)
MatchesNumberOnly(t) == t # <<>> /\ LeadingDigits(t) = Len(t)

is_chapter_like(link_text) ==
    \/ MatchesChapterWord(Lower(link_text))
    \/ MatchesChNumber(Lower(link_text))
    \/ MatchesNumberPrefix(link_text)
    \/ MatchesNumberOnly(link_text)

\* li.find('a', href=True)
FirstLink(li) == FirstOrNone(FindAllLinks(li))

Present(opts) == [i \in 1..Len(opts) |-> opts[i][1]]

FirstLinks(lis) ==
    Present(SelectSeq([i \in 1..Len(lis) |-> FirstLink(lis[i])], LAMBDA f : f # None))

\* The first link of every li of every list, in the order of the two nested loops
\* `for l in main_content.find_all(tag): for li in l.find_all('li')`.
ListLinks(lists) ==
    FirstLinks(Concat([i \in 1..Len(lists) |-> FindAllTags(lists[i], {"li"})]))

\* Lines 849-863: the scan of the ordered lists from link i on.
RECURSIVE ScanOrderedLists(_, _, _, _)
ScanOrderedLink(links, i, base_url, chapter_links, href, full_url, link_text) ==
    ScanOrderedLists(
        links, i + 1, base_url,
        IF /\ href # <<>> /\ ~StartsWith(href, <<"#">>)
           /\ full_url \notin SeenUrls(chapter_links)
           /\ link_text # <<>>
        THEN Append(chapter_links, Link(link_text, full_url))
        ELSE chapter_links)
ScanOrderedLists(links, i, base_url, chapter_links) ==
    IF i > Len(links) THEN chapter_links
    ELSE ScanOrderedLink(links, i, base_url, chapter_links, Href(links[i]),
                         UrlJoin(base_url, Href(links[i])).url, GetTextStrip(links[i]))

\* if ul.get('class') and any('nav' in c.lower() or 'menu' in c.lower() ...)
LooksLikeMenu(ul) ==
    \E i \in 1..Len(ul.attrs.class) :
        ContainsAny(Lower(Chars(ul.attrs.class[i])), <<"nav", "menu">>)

\* Lines 867-886: the scan of the unordered lists from link i on.
RECURSIVE ScanUnorderedLists(_, _, _, _)
ScanUnorderedLink(links, i, base_url, chapter_links, href, full_url, link_text) ==
    ScanUnorderedLists(
        links, i + 1, base_url,
        IF /\ href # <<>> /\ ~StartsWith(href, <<"#">>)
           /\ Netloc(full_url) = Netloc(base_url)
           /\ full_url \notin SeenUrls(chapter_links)
           /\ link_text # <<>> /\ Len(link_text) < 200
        THEN Append(chapter_links, Link(link_text, full_url))
        ELSE chapter_links)
ScanUnorderedLists(links, i, base_url, chapter_links) ==
    IF i > Len(links) THEN chapter_links
    ELSE ScanUnorderedLink(links, i, base_url, chapter_links, Href(links[i]),
                           UrlJoin(base_url, Href(links[i])).url, GetTextStrip(links[i]))

\* if len(chapter_links) < 3: the unordered lists are scanned too
ListFallbackAfterOl(main_content, base_url, from_ol) ==
    IF Len(from_ol) < 3
    THEN ScanUnorderedLists(
             ListLinks(SelectSeq(FindAllTags(main_content, {"ul"}),
                                 LAMBDA ul : ~LooksLikeMenu(ul))),
             1, base_url, from_ol)
    ELSE from_ol

\* Stage 4 (lines 843-886), run when stage 3 found fewer than 3 links.
ListFallback(main_content, base_url) ==
    ListFallbackAfterOl(
        main_content, base_url,
        ScanOrderedLists(ListLinks(FindAllTags(main_content, {"ol"})), 1, base_url, <<>>))

\* Stage 5 (lines 891-899)
LenientFilter(candidate_links) ==
    SelectSeq(candidate_links, LAMBDA l : Len(l.name) < 150 /\ Len(l.name) > 1)

\* if pattern_info and pattern_info['confidence'] > 0.8: return largest_cluster
AcceptCluster(largest_cluster, pattern_info) ==
    IF pattern_info # None /\ RatGT(pattern_info[1].confidence, Rat(8, 10))
    THEN Some(largest_cluster)
    ELSE None

AcceptLargest(url_clusters) ==
    IF url_clusters = <<>> THEN None
    ELSE AcceptCluster(url_clusters[1], _detect_sequential_pattern(url_clusters[1]))

\* Stage 2 (lines 792-819): the accepted cluster, or None.
UrlPatternStage(candidate_links) ==
    IF Len(candidate_links) < 2 THEN None
    ELSE AcceptLargest(_cluster_similar_urls(candidate_links))

\* What a call of extract_links ends with: raised is TRUE when an exception leaves
\* the function; links is the returned list; stage is the stage whose links are
\* returned (2, 3, 4 or 5); candidates are the stage-0 candidates.
LinksResult(raised, links, stage, candidates) ==
    [raised |-> raised, links |-> links, stage |-> stage, candidates |-> candidates]

\* Lines 888-901: the list links, or the lenient filter when there are none.
AfterListStage(candidate_links, list_links) ==
    IF Len(list_links) = 0 /\ Len(candidate_links) > 0
    THEN LinksResult(FALSE, LenientFilter(candidate_links), 5, candidate_links)
    ELSE LinksResult(FALSE, list_links, 4, candidate_links)

\* The text matches are returned as soon as there is one.
AfterTextStage_AnyMatch(main_content, base_url, candidate_links, text_links) ==
    IF Len(text_links) >= 1
    THEN LinksResult(FALSE, text_links, 3, candidate_links)
    ELSE AfterListStage(candidate_links, ListFallback(main_content, base_url))

\* Lines 821-846: the text matches when there are 3 or more, else stage 4.
AfterTextStage(main_content, base_url, candidate_links, text_links) ==
    IF Len(text_links) >= 3
    THEN LinksResult(FALSE, text_links, 3, candidate_links)
    ELSE AfterListStage(candidate_links, ListFallback(main_content, base_url))

\* Lines 791-819: the accepted cluster is returned as it is.
AfterPatternStage(main_content, base_url, candidate_links, accepted) ==
    IF accepted # None
    THEN LinksResult(FALSE, accepted[1], 2, candidate_links)
    ELSE AfterTextStage(main_content, base_url, candidate_links,
                        SelectSeq(candidate_links, LAMBDA l : is_chapter_like(l.name)))

AfterCandidates(main_content, base_url, stage0) ==
    IF stage0.raised THEN LinksResult(TRUE, <<>>, 0, <<>>)
    ELSE AfterPatternStage(main_content, base_url, stage0.links,
                           UrlPatternStage(stage0.links))

LinksIn(main_content, base_url) ==
    AfterCandidates(main_content, base_url,
                    CollectCandidates(FindAllLinks(main_content), 1, base_url, <<>>))

extract_links(html, base_url) ==
    LinksIn(MainContent(Decompose(html, LinkNoiseTags), LinkSelectors), base_url)

(***************************************************************************)
(* The index pages extract_links is run on: every page of up to MaxLinks    *)
(* anchors drawn from AnchorLib, all placed the same way (bare in the body, *)
(* each in an li of one ol, or each in an li of one ul), and the pages of   *)
(* FixturePages.                                                            *)
(***************************************************************************)
MaxLinks == 3

PageUrl == Chars("http://a.com/book/index.html")

A(href, text) == Elem("a", [NoAttrs EXCEPT !.href = Some(Chars(href))], <<TextNode(text)>>)
Li(kids) == Elem("li", NoAttrs, kids)
Ol(kids) == Elem("ol", NoAttrs, kids)
Ul(class, kids) == Elem("ul", [NoAttrs EXCEPT !.class = class], kids)
HtmlDoc(body_kids) ==
    Document(<<Elem("html", NoAttrs,
                    <<Elem("head", NoAttrs, <<>>), Elem("body", NoAttrs, body_kids)>>)>>)

AnchorLib ==
    { A("/book/ch-1", "Chapter 1"),
      A("/book/ch-2", "Chapter 2"),
      A("ch-1", " Start "),
      A("/one", "Chapter 1"),
      A("/two", "Chapter 2"),
      A("/about", "About Us"),
      A("http://other.com/x", "Sponsor") }

Placements == {"body", "ol", "ul"}

Place(anchors, where) ==
    CASE where = "body" -> anchors
      [] where = "ol"   -> <<Ol([i \in 1..Len(anchors) |-> Li(<<anchors[i]>>)])>>
      [] where = "ul"   -> <<Ul(<<"chapters">>, [i \in 1..Len(anchors) |-> Li(<<anchors[i]>>)])>>

GeneratedPages ==
    { HtmlDoc(Place(anchors, where)) :
        anchors \in UNION { [1..n -> AnchorLib] : n \in 0..MaxLinks },
        where \in Placements }

\* <a href="/book/ch-N">Chapter N</a>
ChapterAnchor(n) ==
    Elem("a", [NoAttrs EXCEPT !.href = Some(Chars("/book/ch-") \o IntChars(n))],
         <<[TextNode("Chapter ") EXCEPT !.text = Chars("Chapter ") \o IntChars(n)]>>)

FixturePages ==
    { \* /book/ch-1 ... /book/ch-10 in document order
      HtmlDoc([i \in 1..10 |-> ChapterAnchor(i)]),
      \* the same ten, last chapter first
      HtmlDoc([i \in 1..10 |-> ChapterAnchor(11 - i)]),
      \* chapters 1, 2 and 19 of a book: too sparse for stage 2
      HtmlDoc(<<ChapterAnchor(1), ChapterAnchor(2), ChapterAnchor(19)>>),
      \* a navigation bar, an article with an ordered list of three links, an
      \* unordered list and a menu
      HtmlDoc(<<Elem("nav", NoAttrs, <<A("/book/ch-7", "Chapter 7")>>),
                Elem("article", NoAttrs,
                     <<Ol(<<Li(<<A("/one", "One"), A("/two", "Two")>>),
                            Li(<<A("/three", "Three")>>),
                            Li(<<A("http://other.com/x", "Sponsor")>>)>>),
                       Ul(<<"toc">>, <<Li(<<A("/four", "Four")>>)>>),
                       Ul(<<"main-menu">>, <<Li(<<A("/five", "Five")>>)>>)>>)>>),
      \* two plain chapter links, and the same target and a site link in lists
      HtmlDoc(<<A("/one", "Chapter 1"), A("/two", "Chapter 2"),
                Ol(<<Li(<<A("/about", "About Us")>>)>>),
                Ul(<<"side-nav">>, <<Li(<<A("/three", "Three")>>)>>),
                Ul(<<>>, <<Li(<<A("/one", "One again")>>), Li(<<A("#top", "Top")>>)>>)>>),
      \* a chapter link and a link whose href is not a URL urllib can split
      HtmlDoc(<<A("/book/ch-1", "Chapter 1"), A("http://[bad", "Chapter 2")>>),
      \* four numbered links with unrelated URLs
      HtmlDoc(<<A("/a", "1. Dawn"), A("/b", "2) Noon"), A("/c", "3"), A("/d", "ch. 4"),
                A("/e", "Epilogue")>>),
      \* a site link and a chapter link with one target, and a second chapter
      HtmlDoc(<<A("/book/ch-1", "Home"), A("/book/ch-1", "Chapter 1"),
                A("/book/ch-2", "Chapter 2")>>),
      \* an ordered list of one link whose text is 200 characters long
      HtmlDoc(<<Ol(<<Li(<<Elem("a", [NoAttrs EXCEPT !.href = Some(Chars("/book/long"))],
                               <<[TextNode("x") EXCEPT !.text = [k \in 1..200 |-> "x"]]>>)>>)>>)>>),
      \* three chapter links with unrelated URLs, and an ordered list of one link
      HtmlDoc(<<A("/one", "Chapter 1"), A("/two", "Chapter 2"), A("/three", "Chapter 3"),
                Ol(<<Li(<<A("/extra", "Appendix")>>)>>)>>) }

LinkPages == GeneratedPages \cup FixturePages

LinksInit ==
    /\ doc \in LinkPages
    /\ doc_url = PageUrl
    /\ links_ret = None

\* One call of extract_links(html, base_url).
ExtractLinks ==
    /\ doc # <<>>
    /\ links_ret = None
    /\ links_ret' = Some(extract_links(doc, doc_url))
    /\ UNCHANGED <<doc, doc_url>>
    /\ UNCHANGED not_links_vars

LinksNext == ExtractLinks

\* A call of extract_links, nothing else under way.
InitLinks == LinksInit /\ OthersIdle("extract_links")

SpecLinks == InitLinks /\ [][LinksNext]_vars

(***************************************************************************)
(* extract_content(html, track_containers) in normal mode, and the walk     *)
(* _process_element.  A walk carries the text it has produced, the list     *)
(* processed_elements and containers_tracker (None when tracking is off).   *)
(***************************************************************************)
ContentNoiseTags == {"script", "style", "nav", "header", "footer", "iframe", "noscript", "aside"}

Headings == {"h1", "h2", "h3", "h4", "h5", "h6"}
Containers == {"div", "section", "article", "main"}

\* sep.join(parts)
RECURSIVE JoinWith(_, _)
JoinWith(parts, sep) ==
    IF parts = <<>> THEN <<>>
    ELSE IF Len(parts) = 1 THEN parts[1]
    ELSE parts[1] \o sep \o JoinWith(Tail(parts), sep)

\* c * n
Repeat(c, n) == [i \in 1..n |-> c]

\* The index of the last character of the run of whitespace that starts at i.
\* A faulty variant: only newlines continue the run (the pattern \n\n\n+).
RECURSIVE WsRunEnd_NewlinesOnly(_, _)
WsRunEnd_NewlinesOnly(t, i) ==
    IF i < Len(t) /\ t[i + 1] = "\n" THEN WsRunEnd_NewlinesOnly(t, i + 1) ELSE i

RECURSIVE WsRunEnd(_, _)
WsRunEnd(t, i) == IF i < Len(t) /\ IsSpace(t[i + 1]) THEN WsRunEnd(t, i + 1) ELSE i

\* The position of the first newline of t from position i on, or Len(t) + 1.
NextNewline(t, i) ==
    IF \E k \in i..Len(t) : t[k] = "\n"
    THEN CHOOSE k \in i..Len(t) : t[k] = "\n" /\ \A j \in i..(k - 1) : t[j] # "\n"
    ELSE Len(t) + 1

\* re.sub(r'\n\s*\n\s*\n+', '\n\n', text) from position i on: a match starts at a
\* newline whose run of whitespace holds three or more newlines, and ends at the
\* last newline of the run.
RECURSIVE CollapseNewlines(_, _)
CollapseRun(t, i, newlines) ==
    IF Cardinality(newlines) >= 3
    THEN <<"\n", "\n">> \o CollapseNewlines(t, SetMax(newlines) + 1)
    ELSE <<t[i]>> \o CollapseNewlines(t, i + 1)
CollapseAt(t, i, k) ==
    IF k > Len(t) THEN SubSeq(t, i, Len(t))
    ELSE SubSeq(t, i, k - 1) \o CollapseRun(t, k, {j \in k..WsRunEnd(t, k) : t[j] = "\n"})
CollapseNewlines(t, i) == CollapseAt(t, i, NextNewline(t, i))

CharsAt(t, idx) == [k \in 1..Len(idx) |-> t[idx[k]]]

\* re.sub(r' +', ' ', text)
CollapseSpaces(t) ==
    CharsAt(t, SelectSeq([i \in 1..Len(t) |-> i],
                         LAMBDA i : ~(t[i] = " " /\ i > 1 /\ t[i - 1] = " ")))

\* A faulty variant: the lines are left untrimmed.
StripLines_Untrimmed(t) == t

StripAll(lines) == [i \in 1..Len(lines) |-> Strip(lines[i])]

\* '\n'.join(line.strip() for line in text.split('\n'))
StripLines(t) == JoinWith(StripAll(SplitOn(t, "\n")), <<"\n">>)

_clean_text(text) == Strip(StripLines(CollapseSpaces(CollapseNewlines(text, 1))))

(***************************************************************************)
(* _clean_text applied to a text, and again to its own output.             *)
(***************************************************************************)
MaxTextLen == 6
MaxCleanCalls == 2
CleanAlphabet == {"a", " ", "\n", "\t"}
CleanTexts == UNION {[1..n -> CleanAlphabet] : n \in 0..MaxTextLen}

CleanInit ==
    /\ clean_in \in CleanTexts
    /\ clean_text = clean_in
    /\ clean_count = 0

\* text = self._clean_text(text)
CleanText ==
    /\ clean_count < MaxCleanCalls
    /\ clean_text' = _clean_text(clean_text)
    /\ clean_count' = clean_count + 1
    /\ UNCHANGED <<clean_in, not_clean_vars>>

CleanNext == CleanText

InitClean == CleanInit /\ OthersIdle("_clean_text")

SpecClean == InitClean /\ [][CleanNext]_vars

\* int(element.name[1])
HeadingLevel(tag) ==
    CASE tag = "h1" -> 1 [] tag = "h2" -> 2 [] tag = "h3" -> 3
      [] tag = "h4" -> 4 [] tag = "h5" -> 5 [] tag = "h6" -> 6

\* '\n'.join('> ' + line for line in text.split('\n') if line.strip())
QuoteAll(lines) == JoinWith([i \in 1..Len(lines) |-> <<">", " ">> \o lines[i]], <<"\n">>)
Quoted(text) == QuoteAll(SelectSeq(SplitOn(text, "\n"), LAMBDA line : Strip(line) # <<>>))

\* What one li of a list adds: the marker and the text, or nothing.
ItemText(marker, text) == IF text = <<>> THEN <<>> ELSE marker \o text \o <<"\n">>

UlText(items) ==
    Concat([i \in 1..Len(items) |-> ItemText(<<"-", " ">>, GetTextStrip(items[i]))])
    \o <<"\n">>

OlText(items) ==
    Concat([i \in 1..Len(items) |->
              ItemText(IntChars(i) \o <<".", " ">>, GetTextStrip(items[i]))])
    \o <<"\n">>

\* One row of a table: '| ' + ' | '.join(cells) + ' |\n', or nothing without cells.
RowText(cells) ==
    IF cells = <<>> THEN <<>>
    ELSE <<"|", " ">>
         \o JoinWith([i \in 1..Len(cells) |-> GetTextStrip(cells[i])], <<" ", "|", " ">>)
         \o <<" ", "|", "\n">>

TableText(rows) ==
    <<"\n">>
    \o Concat([i \in 1..Len(rows) |-> RowText(FindAllTags(rows[i], {"td", "th"}))])
    \o <<"\n">>

\* element.get('href', '')
HrefOrEmpty(a) == IF a.attrs.href = None THEN <<>> ELSE a.attrs.href[1]

AnchorText(text, href) ==
    IF text = <<>> THEN <<>>
    ELSE IF href # <<>> /\ StartsWith(href, Chars("http"))
         THEN <<"[">> \o text \o <<"]", "(">> \o href \o <<")">>
         ELSE text

\* text wrapped when it is not empty
Wrapped(before, text, after) == IF text = <<>> THEN <<>> ELSE before \o text \o after

\* The last branch: the text of an element that has no child tag.
OtherText(element) ==
    IF SelectSeq(element.kids, IsTag) = <<>>
    THEN Wrapped(<<>>, GetTextStrip(element), <<" ">>)
    ELSE <<>>

\* The grave accent, a character a TLA+ string cannot hold, and the code fence.
Backtick == "GRAVE"
Fence == <<Backtick, Backtick, Backtick>>

\* The branches of _process_element that do not walk the children.
LeafText(element, parent_tag) ==
    CASE element.tag \in Headings ->
           Wrapped(<<"\n">> \o Repeat("#", HeadingLevel(element.tag)) \o <<" ">>,
                   GetTextStrip(element), <<"\n", "\n">>)
      [] element.tag = "p" -> Wrapped(<<>>, GetTextStrip(element), <<"\n", "\n">>)
      [] element.tag = "br" -> <<"\n">>
      [] element.tag = "blockquote" ->
           IF GetTextStrip(element) = <<>> THEN <<>>
           ELSE Quoted(GetTextStrip(element)) \o <<"\n", "\n">>
      [] element.tag = "ul" -> UlText(ChildTags(element, {"li"}))
      [] element.tag = "ol" -> OlText(ChildTags(element, {"li"}))
      [] element.tag = "hr" -> Chars("\n---\n\n")
      [] element.tag = "pre" ->
           <<"\n">> \o Fence \o <<"\n">> \o GetText(element) \o <<"\n">> \o Fence \o <<"\n", "\n">>
      [] element.tag = "code" /\ parent_tag # "pre" ->
           <<Backtick>> \o GetText(element) \o <<Backtick>>
      [] element.tag \in {"strong", "b"} ->
           Wrapped(<<"*", "*">>, GetTextStrip(element), <<"*", "*">>)
      [] element.tag \in {"em", "i"} -> Wrapped(<<"*">>, GetTextStrip(element), <<"*">>)
      [] element.tag = "table" -> TableText(FindAllTags(element, {"tr"}))
      [] element.tag = "a" -> AnchorText(GetTextStrip(element), HrefOrEmpty(element))
      [] OTHER -> OtherText(element)

Walked(text, processed, tracker) ==
    [text |-> text, processed |-> processed, tracker |-> tracker]

\* id if it is not empty, else None
NonEmpty(opt) == IF opt = None \/ opt[1] = "" THEN None ELSE opt

\* ' '.join(element.get('class', [])), or None when that is empty
ClassesOf(class) ==
    IF class = <<>> THEN None
    ELSE Some(JoinWith([i \in 1..Len(class) |-> Chars(class[i])], <<" ">>))

\* container_text[:100].strip() + '...' if len(container_text) > 100
\* else container_text.strip()
PreviewOf(container_text) ==
    IF Len(container_text) > 100
    THEN Strip(SubSeq(container_text, 1, 100)) \o <<".", ".", ".">>
    ELSE Strip(container_text)

ContainerInfo(element, container_text) ==
    [type |-> element.tag,
     id |-> NonEmpty(element.attrs.id),
     classes |-> ClassesOf(element.attrs.class),
     content_length |-> Len(container_text),
     content_preview |-> PreviewOf(container_text)]

IsDuplicate(containers, info) ==
    \E i \in 1..Len(containers) :
        /\ containers[i].type = info.type
        /\ containers[i].id = info.id
        /\ containers[i].classes = info.classes

AppendUnique(containers, info) ==
    IF IsDuplicate(containers, info) THEN containers ELSE Append(containers, info)

\* The end of the container branch: the container is recorded when tracking is on
\* and its text is not blank.
TrackContainer(element, w) ==
    IF w.tracker = None \/ Strip(w.text) = <<>> THEN w
    ELSE [w EXCEPT !.tracker = Some(AppendUnique(w.tracker[1], ContainerInfo(element, w.text)))]

\* A text node among the children of a container.
TextChild(kid) == Wrapped(<<>>, Strip(kid.text), <<" ">>)

\* _process_element(element, processed_elements, containers_tracker); parent_tag
\* is element.parent.name.
RECURSIVE ProcessElement(_, _, _, _)
RECURSIVE WalkChildren(_, _, _)
WalkChild(element, i, acc, r) ==
    WalkChildren(element, i + 1, Walked(acc.text \o r.text, r.processed, r.tracker))
WalkChildren(element, i, acc) ==
    IF i > Len(element.kids) THEN acc
    ELSE IF IsTag(element.kids[i])
         THEN WalkChild(element, i, acc,
                        ProcessElement(element.kids[i], element.tag, acc.processed, acc.tracker))
         ELSE WalkChildren(element, i + 1,
                           [acc EXCEPT !.text = @ \o TextChild(element.kids[i])])
ProcessNew(element, parent_tag, processed, tracker) ==
    IF element.tag \in Containers
    THEN TrackContainer(element, WalkChildren(element, 1, Walked(<<>>, processed, tracker)))
    ELSE Walked(LeafText(element, parent_tag), processed, tracker)
ProcessElement(element, parent_tag, processed, tracker) ==
    IF element \in processed THEN Walked(<<>>, processed, tracker)
    ELSE ProcessNew(element, parent_tag, processed \cup {element}, tracker)

\* element.parent.name for an element of the soup ("" for the soup itself)
ParentIn(nodes, element) ==
    IF \E i \in 1..Len(nodes) : \E k \in 1..Len(nodes[i].kids) : nodes[i].kids[k] = element
    THEN nodes[CHOOSE i \in 1..Len(nodes) :
                 /\ \E k \in 1..Len(nodes[i].kids) : nodes[i].kids[k] = element
                 /\ \A j \in 1..(i - 1) : \A k \in 1..Len(nodes[j].kids) : nodes[j].kids[k] # element].tag
    ELSE ""
ParentTag(soup, element) == ParentIn(<<soup>> \o FindAll(soup), element)

\* The pair extract_content returns.
ContentResult(w) == [text |-> _clean_text(w.text), containers |-> w.tracker]

\* _extract_text_with_structure(main_content, containers_tracker)
_extract_text_with_structure(main_content, parent_tag, containers_tracker) ==
    ProcessElement(main_content, parent_tag, {}, containers_tracker)

ContentFrom(soup, main_content, track_containers) ==
    ContentResult(_extract_text_with_structure(
                      main_content, ParentTag(soup, main_content),
                      IF track_containers THEN Some(<<>>) ELSE None))

ContentIn(soup, track_containers) ==
    ContentFrom(soup, MainContent(soup, ContentSelectors), track_containers)

extract_content(html, track_containers) ==
    ContentIn(Decompose(html, ContentNoiseTags), track_containers)

(***************************************************************************)
(* extract_content_from_selected_containers(html, containers,              *)
(* selected_indices).                                                      *)
(***************************************************************************)
\* containers[idx]
PyIndex(list, idx) == IF idx >= 0 THEN list[idx + 1] ELSE list[Len(list) + idx + 1]

PickContainers(containers, kept) == [k \in 1..Len(kept) |-> PyIndex(containers, kept[k])]

\* for idx in selected_indices: if idx < len(containers): ...append(containers[idx])
SelectedContainers(containers, selected_indices) ==
    PickContainers(containers, SelectSeq(selected_indices, LAMBDA idx : idx < Len(containers)))

\* container_classes.split()
ClassList(container_classes) ==
    SelectSeq(SplitOn(container_classes, " "), LAMBDA c : c # <<>>)

AllIn(class_list, x) == \A i \in 1..Len(class_list) : Contains(x, class_list[i])

\* class_=lambda x: x and all(c in x for c in class_list), which bs4 asks of each
\* class of the element and of the classes joined by spaces
HasClasses(element, class_list) ==
    /\ element.attrs.class # <<>>
    /\ AllIn(class_list, ClassesOf(element.attrs.class)[1])

\* if container_id: (an id is kept as one string)
HasId(container_id) == container_id # None /\ container_id[1] # ""
\* elif container_classes:
HasText(container_classes) == container_classes # None /\ container_classes[1] # <<>>

\* The element is among soup.find_all(...) for the container descriptor.
MatchesContainer(element, container_info) ==
    /\ element.tag = container_info.type
    /\ IF HasId(container_info.id) THEN element.attrs.id = container_info.id
       ELSE IF HasText(container_info.classes)
            THEN HasClasses(element, ClassList(container_info.classes[1]))
            ELSE TRUE

\* text = self._process_element(element, [], None)
PartOf(soup, element) ==
    ProcessElement(element, ParentTag(soup, element), {}, None).text

\* if text.strip(): extracted_parts.append(text)
PartsOf(soup, elements) ==
    SelectSeq([i \in 1..Len(elements) |-> PartOf(soup, elements[i])],
              LAMBDA text : Strip(text) # <<>>)

PartsFor(soup, container_info) ==
    PartsOf(soup, SelectSeq(FindAll(soup), LAMBDA e : MatchesContainer(e, container_info)))

ExtractedParts(soup, selected_containers) ==
    Concat([i \in 1..Len(selected_containers) |-> PartsFor(soup, selected_containers[i])])

SelectedText(soup, selected_containers) ==
    IF selected_containers = <<>> THEN <<>>
    ELSE _clean_text(JoinWith(ExtractedParts(soup, selected_containers), <<"\n", "\n">>))

extract_content_from_selected_containers(html, containers, selected_indices) ==
    SelectedText(Decompose(html, ContentNoiseTags),
                 SelectedContainers(containers, selected_indices))

\* The index lists a caller passes: in range, out of range, repeated, reordered,
\* and -1, which Python reads as the last container.
SelectedIndices == {<<>>, <<0>>, <<1>>, <<2>>, <<-1>>, <<0, 1>>, <<1, 0>>, <<0, 0>>}

\* scrape_page: if selected_containers is not None and track_containers and
\* containers: content = self.extract_content_from_selected_containers(...)
ExtractSelected ==
    /\ content_ret # None
    /\ selected_ret = None
    /\ c_track
    /\ content_ret[1].containers # None
    /\ content_ret[1].containers[1] # <<>>
    /\ \E selected_indices \in SelectedIndices :
         /\ sel_indices' = Some(selected_indices)
         /\ selected_ret' = Some(extract_content_from_selected_containers(
                                     c_doc, content_ret[1].containers[1], selected_indices))
    /\ UNCHANGED <<c_doc, c_track, content_ret, c_main>>
    /\ UNCHANGED not_content_vars

(***************************************************************************)
(* The pages extract_content is run on: up to MaxBlocks blocks of BlockLib  *)
(* inside each wrapper of Wrappers, and the empty document.                 *)
(***************************************************************************)
MaxBlocks == 2

P(kids) == Elem("p", NoAttrs, kids)

BlockLib ==
    { P(<<TextNode("Hello")>>),
      P(<<TextNode(" One  "), Elem("b", NoAttrs, <<TextNode("two")>>)>>),
      Elem("h2", NoAttrs, <<TextNode("Title")>>),
      Elem("div", NoAttrs, <<P(<<TextNode("Inner")>>)>>),
      Elem("div", NoAttrs, <<TextNode("Other")>>),
      Elem("nav", NoAttrs, <<P(<<TextNode("Menu")>>)>>),
      Elem("ul", NoAttrs, <<Li(<<TextNode("a")>>), Li(<<P(<<TextNode("Item")>>)>>)>>),
      Elem("span", NoAttrs, <<TextNode("leaf")>>),
      TextNode("  loose \n\n \n two  words ") }

Wrappers == {"body", "article", "div", "div.content", "section#main", "td.content"}

\* The children of body when the blocks are put in the wrapper.
Wrap(blocks, wrapper) ==
    CASE wrapper = "body" -> blocks
      [] wrapper = "article" -> <<Elem("article", NoAttrs, blocks)>>
      [] wrapper = "div" -> <<Elem("div", NoAttrs, blocks)>>
      [] wrapper = "div.content" ->
           <<Elem("div", [NoAttrs EXCEPT !.class = <<"content">>], blocks)>>
      [] wrapper = "section#main" ->
           <<Elem("section", [NoAttrs EXCEPT !.id = Some("main")], blocks)>>
      [] wrapper = "td.content" ->
           <<Elem("table", NoAttrs,
                  <<Elem("tr", NoAttrs,
                         <<Elem("td", [NoAttrs EXCEPT !.class = <<"content">>], blocks)>>)>>)>>

ContentPages ==
    { HtmlDoc(Wrap(blocks, wrapper)) :
        blocks \in UNION { [1..n -> BlockLib] : n \in 0..MaxBlocks },
        wrapper \in Wrappers }
    \cup {Document(<<>>)}

ContentInit ==
    /\ c_doc \in ContentPages
    /\ c_track \in BOOLEAN
    /\ content_ret = None
    /\ c_main = None
    /\ sel_indices = None
    /\ selected_ret = None

\* One call of extract_content(html, track_containers).
ExtractContent ==
    /\ c_doc # <<>>
    /\ content_ret = None
    /\ content_ret' = Some(extract_content(c_doc, c_track))
    /\ c_main' = Some(MainContent(Decompose(c_doc, ContentNoiseTags), ContentSelectors))
    /\ UNCHANGED <<c_doc, c_track, sel_indices, selected_ret>>
    /\ UNCHANGED not_content_vars

ContentNext == ExtractContent \/ ExtractSelected

\* A call of extract_content, nothing else under way.
InitContent == ContentInit /\ OthersIdle("extract_content")

SpecContent == InitContent /\ [][ContentNext]_vars

(***************************************************************************)
(* extract_content(html, track_containers, chinese_mode=True).  A character *)
(* outside ASCII is a named token: Han is a character of the CJK Unified    *)
(* Ideographs (U+4E00-U+9FFF), HanExtA one of Extension A (U+3400-U+4DBF),  *)
(* HanExtB one of Extension B (U+20000-U+2A6DF), Kana a hiragana letter.    *)
(***************************************************************************)
Han == "HAN"
HanExtA == "HAN_EXT_A"
HanExtB == "HAN_EXT_B"
Kana == "KANA"

_is_chinese_char(char) == char \in {Han, HanExtA, HanExtB}

\* ''.join(text.split())
NoWhitespace(text) == SelectSeq(text, LAMBDA c : ~IsSpace(c))

\* chinese_count / len(text_no_whitespace), or 0.0 for no character
ChineseShare(text_no_whitespace) ==
    IF text_no_whitespace = <<>> THEN Rat(0, 1)
    ELSE Rat(Len(SelectSeq(text_no_whitespace, _is_chinese_char)), Len(text_no_whitespace))

_calculate_chinese_percentage(text) ==
    IF text = <<>> THEN Rat(0, 1) ELSE ChineseShare(NoWhitespace(text))

\* round(x * 100, 1) in tenths: the nearest tenth of the exact product, a tie
\* going to the even tenth
RoundHalfEven(q, twice_rest, den) ==
    IF twice_rest > den THEN q + 1
    ELSE IF twice_rest = den THEN q + (q % 2)
    ELSE q
PercentTenths(x) ==
    RoundHalfEven((1000 * x.num) \div x.den, 2 * ((1000 * x.num) % x.den), x.den)

\* container_text[:200] + ('...' if len(container_text) > 200 else '')
ChinesePreview(container_text) ==
    IF Len(container_text) > 200
    THEN SubSeq(container_text, 1, 200) \o <<".", ".", ".">>
    ELSE container_text

\* The dictionary appended to chinese_containers.
ChineseInfo(container, container_text, chinese_percentage) ==
    [element |-> container,
     type |-> container.tag,
     id |-> container.attrs.id,
     classes |-> ClassesOf(container.attrs.class),
     content_length |-> Len(container_text),
     content_preview |-> ChinesePreview(container_text),
     selected |-> TRUE,
     chinese_percentage |-> PercentTenths(chinese_percentage)]

\* A faulty variant: a share of exactly one half is accepted.
MajorityChinese_AtLeastHalf(container, container_text, chinese_percentage) ==
    IF RatGE(chinese_percentage, Rat(1, 2))
    THEN Some(ChineseInfo(container, container_text, chinese_percentage))
    ELSE None

\* if chinese_percentage > 0.5: chinese_containers.append(...)
MajorityChinese(container, container_text, chinese_percentage) ==
    IF RatGT(chinese_percentage, Rat(1, 2))
    THEN Some(ChineseInfo(container, container_text, chinese_percentage))
    ELSE None

\* One turn of the loop over potential_containers: the dictionary, or None when
\* the container is skipped.
ChineseCandidate(container, container_text) ==
    IF container_text = <<>> \/ Len(container_text) < 50 THEN None
    ELSE MajorityChinese(container, container_text,
                         _calculate_chinese_percentage(container_text))

ChineseCandidates(potential_containers) ==
    Present(SelectSeq([i \in 1..Len(potential_containers) |->
                          ChineseCandidate(potential_containers[i],
                                           GetTextStrip(potential_containers[i]))],
                      LAMBDA c : c # None))

\* chinese_containers.sort(key=lambda x: x['content_length'], reverse=True)
RECURSIVE InsertByLength(_, _)
InsertByLength(sorted, c) ==
    IF sorted = <<>> THEN <<c>>
    ELSE IF Head(sorted).content_length >= c.content_length
         THEN <<Head(sorted)>> \o InsertByLength(Tail(sorted), c)
         ELSE <<c>> \o sorted

RECURSIVE SortByLength(_)
SortByLength(cs) ==
    IF cs = <<>> THEN <<>>
    ELSE InsertByLength(SortByLength(SubSeq(cs, 1, Len(cs) - 1)), cs[Len(cs)])

\* body_element = soup.find('body') or soup
BodyElement(soup) == MainContentOf(None, Find(soup, "body"), soup)

\* chinese_containers after the sort
ChineseContainers(soup) ==
    SortByLength(ChineseCandidates(
        FindAllTags(BodyElement(soup), {"div", "section", "article", "main", "p"})))

\* main_content: the largest Chinese container, or body_element
ChineseRoot(chinese_containers, body_element) ==
    IF chinese_containers # <<>> THEN chinese_containers[1].element ELSE body_element

\* main_content of a soup in chinese mode
ChineseMainContent(soup) == ChineseRoot(ChineseContainers(soup), BodyElement(soup))

\* {k: v for k, v in c.items() if k != 'element'}
WithoutElement(c) ==
    [type |-> c.type, id |-> c.id, classes |-> c.classes,
     content_length |-> c.content_length, content_preview |-> c.content_preview,
     selected |-> c.selected, chinese_percentage |-> c.chinese_percentage]

\* containers_tracker as chinese mode returns it
ChineseTracker(chinese_containers, track_containers) ==
    IF track_containers /\ chinese_containers # <<>>
    THEN Some([i \in 1..Len(chinese_containers) |-> WithoutElement(chinese_containers[i])])
    ELSE IF track_containers THEN Some(<<>>) ELSE None

ChineseContentFrom(soup, main_content, chinese_containers, track_containers) ==
    [text |-> _clean_text(_extract_text_with_structure(
                              main_content, ParentTag(soup, main_content), None).text),
     containers |-> ChineseTracker(chinese_containers, track_containers)]

ChineseContentOf(soup, chinese_containers, track_containers) ==
    ChineseContentFrom(soup, ChineseRoot(chinese_containers, BodyElement(soup)),
                       chinese_containers, track_containers)

ChineseContentIn(soup, track_containers) ==
    ChineseContentOf(soup, ChineseContainers(soup), track_containers)

\* extract_content(html, track_containers, chinese_mode=True)
extract_content_chinese(html, track_containers) ==
    ChineseContentIn(Decompose(html, ContentNoiseTags), track_containers)

(***************************************************************************)
(* The pages chinese mode is run on: up to MaxChineseBlocks blocks of       *)
(* ChineseBlockLib as the children of body or of one div in body.           *)
(***************************************************************************)
MaxChineseBlocks == 2

\* A text of n_han ideographs followed by n_latin letters.
MixedText(n_han, n_latin) == Repeat(Han, n_han) \o Repeat("a", n_latin)

TextOf(chars) == [tag |-> "#text", attrs |-> NoAttrs, kids |-> <<>>, text |-> chars]

ChineseBlockLib ==
    { Elem("div", NoAttrs, <<TextOf(MixedText(50, 0))>>),
      Elem("div", NoAttrs, <<TextOf(MixedText(49, 0))>>),
      Elem("div", NoAttrs, <<TextOf(MixedText(25, 25))>>),
      Elem("div", [NoAttrs EXCEPT !.class = <<"story">>], <<TextOf(MixedText(26, 24))>>),
      Elem("p", NoAttrs, <<TextOf(MixedText(400, 100))>>),
      Elem("section", NoAttrs, <<TextOf(MixedText(0, 60))>>),
      Elem("div", NoAttrs, <<TextOf(MixedText(60, 0))>>),
      Elem("div", [NoAttrs EXCEPT !.id = Some("x")],
           <<TextOf(Repeat(Han, 30) \o Repeat(" ", 30) \o Repeat(Kana, 25))>>) }

ChineseWrappers == {"body", "div"}

ChinesePages ==
    { HtmlDoc(Wrap(blocks, wrapper)) :
        blocks \in UNION { [1..n -> ChineseBlockLib] : n \in 0..MaxChineseBlocks },
        wrapper \in ChineseWrappers }

ChineseInit ==
    /\ c_doc \in ChinesePages
    /\ c_track \in BOOLEAN
    /\ content_ret = None
    /\ c_main = None
    /\ sel_indices = None
    /\ selected_ret = None

\* One call of extract_content(html, track_containers, chinese_mode=True).
ExtractContentChinese ==
    /\ c_doc # <<>>
    /\ content_ret = None
    /\ content_ret' = Some(extract_content_chinese(c_doc, c_track))
    /\ c_main' = Some(ChineseMainContent(Decompose(c_doc, ContentNoiseTags)))
    /\ UNCHANGED <<c_doc, c_track, sel_indices, selected_ret>>
    /\ UNCHANGED not_content_vars

ChineseNext == ExtractContentChinese \/ ExtractSelected

\* A call of extract_content in chinese mode, nothing else under way.
InitChinese == ChineseInit /\ OthersIdle("extract_content")

SpecChinese == InitChinese /\ [][ChineseNext]_vars

(***************************************************************************)
(* extract_metadata(html, url).  A field of the returned dictionary is     *)
(* None or Some(string); `detected` is what langdetect's detect() does when *)
(* it is called: Some(language code), or None for LangDetectException.     *)
(***************************************************************************)
\* soup.find('meta', {attr: value}): the first such meta element, or None
FindMeta(soup, attr, value) ==
    FirstOrNone(SelectSeq(FindAllTags(soup, {"meta"}), LAMBDA e : e.attrs[attr] = Some(value)))

\* element and element.get('content')
HasContent(element) ==
    element # None /\ element[1].attrs.content # None /\ element[1].attrs.content[1] # ""

\* element['content']
ContentOf(element) == Chars(element[1].attrs.content[1])

\* The title chain: og:title, else the title tag when there is one, else h1.
TitleOf(og_title, title_tag, h1) ==
    IF HasContent(og_title) THEN Some(ContentOf(og_title))
    ELSE IF title_tag # None THEN Some(GetTextStrip(title_tag[1]))
    ELSE IF h1 # None THEN Some(GetTextStrip(h1[1]))
    ELSE None

\* The loop over author_selectors, from the CSS selectors on: the first
\* selector that matches an element gives its text, whatever that is.
AuthorBySelector(by_author, by_post_author, by_rel) ==
    IF by_author # None THEN Some(GetTextStrip(by_author[1]))
    ELSE IF by_post_author # None THEN Some(GetTextStrip(by_post_author[1]))
    ELSE IF by_rel # None THEN Some(GetTextStrip(by_rel[1]))
    ELSE None

\* The loop over author_selectors, the three meta selectors first.
AuthorByMeta(soup, name_author, property_author, name_article_author) ==
    IF HasContent(name_author) THEN Some(ContentOf(name_author))
    ELSE IF HasContent(property_author) THEN Some(ContentOf(property_author))
    ELSE IF HasContent(name_article_author) THEN Some(ContentOf(name_article_author))
    ELSE AuthorBySelector(SelectOne(soup, SelClass("author")),
                          SelectOne(soup, SelClass("post-author")),
                          SelectOne(soup, SelRel("author")))

AuthorOf(soup) ==
    AuthorByMeta(soup, FindMeta(soup, "name", "author"),
                 FindMeta(soup, "property", "article:author"),
                 FindMeta(soup, "name", "article:author"))

\* a or b, for two results of soup.find
OrElse(a, b) == IF a # None THEN a ELSE b

DescriptionFrom(desc_tag) == IF HasContent(desc_tag) THEN Some(ContentOf(desc_tag)) ELSE None

DescriptionOf(soup) ==
    DescriptionFrom(OrElse(FindMeta(soup, "name", "description"),
                           FindMeta(soup, "property", "og:description")))

\* value.split('-')[0]
PrimarySubtag(value) == SplitOn(value, "-")[1]

\* html_tag and html_tag.get('lang')
HasLang(html_tag) ==
    html_tag # None /\ html_tag[1].attrs.lang # None /\ html_tag[1].attrs.lang[1] # ""

\* The try block: detect(text_sample[:1000]) is called for a text that is not
\* empty, and the default stays when it raises LangDetectException.
DetectedLanguage(text_sample, detected) ==
    IF text_sample # <<>> /\ detected # None THEN Some(Chars(detected[1]))
    ELSE Some(Chars("en"))

LanguageFrom(html, html_tag, lang_meta, detected) ==
    IF HasLang(html_tag) THEN Some(PrimarySubtag(Chars(html_tag[1].attrs.lang[1])))
    ELSE IF HasContent(lang_meta) THEN Some(PrimarySubtag(ContentOf(lang_meta)))
    ELSE DetectedLanguage(extract_content(html, FALSE).text, detected)

LanguageOf(html, detected) ==
    LanguageFrom(html, Find(html, "html"),
                 OrElse(FindMeta(html, "http_equiv", "content-language"),
                        FindMeta(html, "name", "language")),
                 detected)

\* if metadata[key] and isinstance(metadata[key], str): strip it, and None when
\* nothing is left.  None and the empty string are left as they are.
CleanField(value) ==
    IF value = None \/ value[1] = <<>> THEN value
    ELSE IF Strip(value[1]) = <<>> THEN None
    ELSE Some(Strip(value[1]))

\* if not metadata['title']: metadata['title'] = f"Scraped from {url}"
DefaultTitle(title, url) ==
    IF title = None \/ title[1] = <<>> THEN Some(Chars("Scraped from ") \o Chars(url))
    ELSE title

Metadata(title, author, description, language, url) ==
    [title |-> DefaultTitle(CleanField(title), url),
     author |-> CleanField(author),
     description |-> CleanField(description),
     language |-> CleanField(language)]

extract_metadata(html, url, detected) ==
    Metadata(TitleOf(FindMeta(html, "property", "og:title"), Find(html, "title"),
                     Find(html, "h1")),
             AuthorOf(html), DescriptionOf(html), LanguageOf(html, detected), url)

(***************************************************************************)
(* The pages extract_metadata is run on: an html element with one of        *)
(* LangAttrs, up to MaxHeadTags elements of HeadLib in head, and one of     *)
(* MetaBodies as the children of body.                                      *)
(***************************************************************************)
MaxHeadTags == 2

Meta(attr, value, content) ==
    Elem("meta", [NoAttrs EXCEPT ![attr] = Some(value), !.content = Some(content)], <<>>)

LangAttrs == {None, Some("en-US"), Some("zh"), Some("-US"), Some(" ")}

HeadLib ==
    { Meta("property", "og:title", "OG Title"),
      Meta("property", "og:title", ""),
      Elem("title", NoAttrs, <<TextNode(" Page Title ")>>),
      Elem("title", NoAttrs, <<>>),
      Meta("name", "author", "Ann"),
      Meta("name", "description", "  "),
      Meta("property", "og:description", " About "),
      Meta("http_equiv", "content-language", "fr-CA"),
      Meta("name", "language", "-") }

MetaBodies ==
    { <<>>,
      <<Elem("h1", NoAttrs, <<TextNode("Heading")>>)>>,
      <<Elem("h1", NoAttrs, <<TextNode("Heading")>>),
        Elem("span", [NoAttrs EXCEPT !.class = <<"author">>], <<>>)>>,
      <<Elem("span", [NoAttrs EXCEPT !.class = <<"post-author">>], <<TextNode(" Bob ")>>)>>,
      <<Elem("a", [NoAttrs EXCEPT !.rel = Some("author")], <<TextNode("Cy")>>)>>,
      <<Elem("article", NoAttrs, <<P(<<TextNode("Hello")>>)>>)>> }

MetaDoc(lang, head_kids, body_kids) ==
    Document(<<Elem("html", [NoAttrs EXCEPT !.lang = lang],
                    <<Elem("head", NoAttrs, head_kids), Elem("body", NoAttrs, body_kids)>>)>>)

MetaPages ==
    { MetaDoc(lang, head_kids, body_kids) :
        lang \in LangAttrs,
        head_kids \in UNION { [1..n -> HeadLib] : n \in 0..MaxHeadTags },
        body_kids \in MetaBodies }

MetaUrls == {"http://example.com/book"}

\* What detect() does: a language code, or LangDetectException.
DetectOutcomes == {Some("fr"), Some("zh-cn"), None}

MetadataInit ==
    /\ m_doc \in MetaPages
    /\ m_url \in MetaUrls
    /\ m_detect \in DetectOutcomes
    /\ metadata_ret = None

\* One call of extract_metadata(html, url).
ExtractMetadata ==
    /\ m_doc # <<>>
    /\ metadata_ret = None
    /\ metadata_ret' = Some(extract_metadata(m_doc, m_url, m_detect))
    /\ UNCHANGED <<m_doc, m_url, m_detect>>
    /\ UNCHANGED not_metadata_vars

MetadataNext == ExtractMetadata

\* A call of extract_metadata, nothing else under way.
InitMetadata == MetadataInit /\ OthersIdle("extract_metadata")

SpecMetadata == InitMetadata /\ [][MetadataNext]_vars

(***************************************************************************)
(* execute_scrape, the branch for the modes INDEX_PAGE and HYBRID.  What    *)
(* fetch_page and scrape_page return, and whether storage raises, is the    *)
(* environment's choice.  A text is the sequence of its characters; an     *)
(* error of the list `errors` is the record of what its message is built    *)
(* from.                                                                   *)
(***************************************************************************)
MaxChapters == 3

IndexUrl == "http://example.com/book"
ChapterUrls == <<"http://example.com/book/1", "http://example.com/book/2",
                 "http://example.com/book/3", "http://example.com/book/4">>

\* scrape_request.selected_chapters: None, or the first n chapter URLs.
SelectedChapters == {None} \cup {Some(SubSeq(ChapterUrls, 1, n)) : n \in 0..MaxChapters}

\* What scrape_page(chapter_url) returns: (result, None) or (None, error).
ScrapeOutcomes ==
    { [error |-> None, content |-> Chars("Text"), title |-> Chars("A Title")],
      [error |-> None, content |-> Chars("Text"),
       title |-> Chars("Scraped from http://example.com/book/1")],
      [error |-> Some("Request timed out (after 3 attempts)"), content |-> <<>>, title |-> <<>>],
      [error |-> Some("No content found on page"), content |-> <<>>, title |-> <<>>] }

\* What fetch_page(url) and extract_content(html) give for the index page.
IndexOutcomes ==
    { [error |-> None, content |-> Chars("Index text")],
      [error |-> None, content |-> <<>>],
      [error |-> Some("Request failed: 503 (after 3 attempts)"), content |-> <<>>] }

Chapter(title, content, url) == [title |-> title, content |-> content, url |-> url]

\* f"Failed to scrape {chapter_url}: {error}"
ChapterError(chapter_url, error) == [failed |-> chapter_url, error |-> error]

\* chapter_title: the title of the metadata, or f"Chapter {idx + 1}" when it
\* starts with 'Scraped from'
ChapterTitle(title, idx) ==
    IF StartsWith(title, Chars("Scraped from")) THEN Chars("Chapter ") \o IntChars(idx + 1)
    ELSE title

\* A faulty variant: the loop is left at the first failure.
Continue_Break(idx, selected_chapters) == Len(selected_chapters)

\* continue: the loop goes on with the next chapter URL.
Continue(idx, selected_chapters) == idx + 1

\* The selected chapter URLs, none when the request has None.
SelectedList(selected) == IF selected = None THEN <<>> ELSE selected[1]

ScrapeInit ==
    /\ es_mode \in {"index_page", "hybrid"}
    /\ es_pc = IF es_mode = "hybrid" THEN "index" ELSE "chapters"
    /\ es_selected \in SelectedChapters
    /\ es_idx = 0
    /\ chapters_content = <<>>
    /\ errors = <<>>
    /\ es_calls = <<>>
    /\ es_book = None
    /\ es_response = None

\* if scrape_request.mode == ScrapeMode.HYBRID: the index page is fetched and its
\* content, if any, becomes the chapter 'Index'.
ScrapeIndex ==
    /\ es_pc = "index"
    /\ \E outcome \in IndexOutcomes :
         /\ chapters_content' =
                IF outcome.error = None /\ outcome.content # <<>>
                THEN Append(chapters_content, Chapter(Chars("Index"), outcome.content, IndexUrl))
                ELSE chapters_content
         /\ errors' =
                IF outcome.error # None
                THEN Append(errors, ChapterError("index page", outcome.error[1]))
                ELSE errors
    /\ es_pc' = "chapters"
    /\ UNCHANGED <<es_mode, es_selected, es_idx, es_calls, es_book, es_response>>
    /\ UNCHANGED not_scrape_vars

\* One turn of the loop over scrape_request.selected_chapters.
ScrapeChapter ==
    /\ es_pc = "chapters"
    /\ es_idx < Len(SelectedList(es_selected))
    /\ \E outcome \in ScrapeOutcomes :
         /\ es_calls' = Append(es_calls, [url |-> SelectedList(es_selected)[es_idx + 1],
                                          error |-> outcome.error])
         /\ IF outcome.error # None
            THEN /\ errors' = Append(errors, ChapterError(SelectedList(es_selected)[es_idx + 1],
                                                          outcome.error[1]))
                 /\ es_idx' = Continue(es_idx, SelectedList(es_selected))
                 /\ UNCHANGED chapters_content
            ELSE /\ chapters_content' =
                        Append(chapters_content,
                               Chapter(ChapterTitle(outcome.title, es_idx), outcome.content,
                                       SelectedList(es_selected)[es_idx + 1]))
                 /\ es_idx' = es_idx + 1
                 /\ UNCHANGED errors
    /\ UNCHANGED <<es_pc, es_mode, es_selected, es_book, es_response>>
    /\ UNCHANGED not_scrape_vars

ScrapeResponse(success, chapters_saved, response_errors, message) ==
    [success |-> success, chapters_saved |-> chapters_saved, errors |-> response_errors,
     message |-> message]

\* if not chapters_content: return ScrapeResponse(success=False, ...)
NoChapters ==
    /\ es_pc = "chapters"
    /\ es_idx >= Len(SelectedList(es_selected))
    /\ chapters_content = <<>>
    /\ es_response' =
          Some(ScrapeResponse(FALSE, 0,
                              IF errors # <<>> THEN errors
                              ELSE <<"No chapters were scraped successfully">>,
                              "Failed to scrape any chapters"))
    /\ es_pc' = "done"
    /\ UNCHANGED <<es_mode, es_selected, es_idx, chapters_content, errors, es_calls, es_book>>
    /\ UNCHANGED not_scrape_vars

\* storage.save_multi_chapter_book(chapters=chapters_content, ...) returns, and
\* the response reports success.
SaveBook ==
    /\ es_pc = "chapters"
    /\ es_idx >= Len(SelectedList(es_selected))
    /\ chapters_content # <<>>
    /\ es_book' = Some(chapters_content)
    /\ es_response' =
          Some(ScrapeResponse(TRUE, Len(chapters_content), errors,
                              "Book scraped and saved successfully"))
    /\ es_pc' = "done"
    /\ UNCHANGED <<es_mode, es_selected, es_idx, chapters_content, errors, es_calls>>
    /\ UNCHANGED not_scrape_vars

\* storage.save_multi_chapter_book raises: except Exception as e.
SaveFails ==
    /\ es_pc = "chapters"
    /\ es_idx >= Len(SelectedList(es_selected))
    /\ chapters_content # <<>>
    /\ es_response' = Some(ScrapeResponse(FALSE, 0, <<"Error saving book">>,
                                          "Failed to save book"))
    /\ es_pc' = "done"
    /\ UNCHANGED <<es_mode, es_selected, es_idx, chapters_content, errors, es_calls, es_book>>
    /\ UNCHANGED not_scrape_vars

ScrapeNext == ScrapeIndex \/ ScrapeChapter \/ NoChapters \/ SaveBook \/ SaveFails

\* A call of execute_scrape in a multi-chapter mode, nothing else under way.
InitScrape == ScrapeInit /\ OthersIdle("execute_scrape")

SpecScrape == InitScrape /\ [][ScrapeNext]_vars


(***************************************************************************)
(* URL clustering on its own: _cluster_similar_urls is run on the candidate *)
(* lists stage 2 hands it (two or more links with distinct URLs), and       *)
(* _calculate_url_similarity and _detect_sequential_pattern on what it is   *)
(* given and what it returns.                                               *)
(***************************************************************************)
MaxSimUrls == 3

SimUrlLib ==
    { "http://a.com/book/ch-1",
      "http://a.com/book/ch-2",
      "http://a.com/book/ch-5",
      "http://a.com/book/ch-10",
      "http://a.com/12/ch-1",
      "http://a.com/13/ch-1",
      "http://a.com/",
      "http://b.org/book/ch-1",
      "http://a.com/a/b/c/d/e/f/g/h/i/x",
      "http://a.com/a/b/c/d/e/f/g/h/i/y",
      "http://a.com/a/b/c/d/e/f/g/h/j/x" }

Distinct(q) == \A i, j \in 1..Len(q) : i # j => q[i] # q[j]

SimUrlLists ==
    UNION {{q \in [1..n -> SimUrlLib] : Distinct(q)} : n \in 2..MaxSimUrls}

SimLinks(q) == [i \in 1..Len(q) |-> Link(Chars("Chapter"), Chars(q[i]))]

SimilarityInit ==
    /\ sim_urls \in {SimLinks(q) : q \in SimUrlLists}
    /\ sim_scores = None
    /\ sim_clusters = None
    /\ sim_pattern = None

\* _calculate_url_similarity(urls[i]['url'], urls[j]['url']) for every i and j
ScoresOf(urls) ==
    [i \in 1..Len(urls) |->
        [j \in 1..Len(urls) |-> _calculate_url_similarity(urls[i].url, urls[j].url)]]

CalculateSimilarity ==
    /\ sim_scores = None
    /\ sim_scores' = Some(ScoresOf(sim_urls))
    /\ UNCHANGED <<sim_urls, sim_clusters, sim_pattern>>
    /\ UNCHANGED not_similarity_vars

ClusterUrls ==
    /\ sim_clusters = None
    /\ sim_clusters' = Some(_cluster_similar_urls(sim_urls))
    /\ UNCHANGED <<sim_urls, sim_scores, sim_pattern>>
    /\ UNCHANGED not_similarity_vars

\* Lines 797-813: the pattern of the largest cluster, and whether stage 2 returns it.
PatternVerdict(largest_cluster, pattern_info) ==
    [cluster |-> largest_cluster, info |-> pattern_info,
     accepted |-> AcceptCluster(largest_cluster, pattern_info) # None]

DetectPattern ==
    /\ sim_clusters # None
    /\ sim_clusters[1] # <<>>
    /\ sim_pattern = None
    /\ sim_pattern' = Some(PatternVerdict(sim_clusters[1][1],
                                          _detect_sequential_pattern(sim_clusters[1][1])))
    /\ UNCHANGED <<sim_urls, sim_scores, sim_clusters>>
    /\ UNCHANGED not_similarity_vars

SimilarityNext == CalculateSimilarity \/ ClusterUrls \/ DetectPattern

InitSimilarity == SimilarityInit /\ OthersIdle("_cluster_similar_urls")

SpecSimilarity == InitSimilarity /\ [][SimilarityNext]_vars


(***************************************************************************)
(* scraper/modes.py.  A ScrapeMode is its value; a client makes up to      *)
(* MaxModeCalls calls of is_mode_supported and get_supported_modes.        *)
(***************************************************************************)
ONE_PAGE == "one_page"
INDEX_PAGE == "index_page"
HYBRID == "hybrid"

ScrapeMode == {ONE_PAGE, INDEX_PAGE, HYBRID}

is_mode_supported(mode, phase) ==
    IF phase >= 1 THEN mode = ONE_PAGE
    ELSE IF phase >= 2 THEN mode \in {ONE_PAGE, INDEX_PAGE, HYBRID}
    ELSE FALSE

get_supported_modes(phase) ==
    IF phase >= 2 THEN <<ONE_PAGE, INDEX_PAGE, HYBRID>> ELSE <<ONE_PAGE>>

MaxModeCalls == 2

\* "Implementation phase (1-4)", and 0 for a phase before the first.
Phases == 0..4

ModesInit == mode_calls = <<>>

IsModeSupported ==
    /\ Len(mode_calls) < MaxModeCalls
    /\ \E mode \in ScrapeMode, phase \in Phases :
           mode_calls' = Append(mode_calls,
                                [fn |-> "is_mode_supported", mode |-> Some(mode),
                                 phase |-> phase,
                                 supported |-> Some(is_mode_supported(mode, phase)),
                                 modes |-> None])
    /\ UNCHANGED not_modes_vars

GetSupportedModes ==
    /\ Len(mode_calls) < MaxModeCalls
    /\ \E phase \in Phases :
           mode_calls' = Append(mode_calls,
                                [fn |-> "get_supported_modes", mode |-> None,
                                 phase |-> phase, supported |-> None,
                                 modes |-> Some(get_supported_modes(phase))])
    /\ UNCHANGED not_modes_vars

ModesNext == IsModeSupported \/ GetSupportedModes

InitModes == ModesInit /\ OthersIdle("is_mode_supported")

SpecModes == InitModes /\ [][ModesNext]_vars


(***************************************************************************)
(* storage/manager.py: one book built chapter by chapter.  The directory   *)
(* of the book holds metadata.json (of which chapters_count is kept),      *)
(* index.json (the list of ChapterInfo) and the chapter files by name.     *)
(***************************************************************************)
MaxAdds == 2
MaxChapterIndex == 2

ChapterIndexes == 0..MaxChapterIndex
ChapterTitles == {"One", "Two"}
ChapterTexts == {"alpha", "beta"}

\* f"{chapter_index:03d}.md"
ChapterFile(chapter_index) ==
    Repeat("0", 3 - Len(IntChars(chapter_index))) \o IntChars(chapter_index) \o Chars(".md")

ChapterInfo(id, title, file) == [id |-> id, title |-> title, file |-> file]

\* chapter_path.write_text(chapter_content): the files of the chapters directory
\* as a function from file name to text.
WriteText(files, name, text) ==
    [f \in DOMAIN files \cup {name} |-> IF f = name THEN text ELSE files[f]]

\* book_index.chapters.sort(key=lambda ch: ch.id): a stable sort, so the new,
\* last entry goes behind the entries with the same id.
RECURSIVE InsertById(_, _)
InsertById(chapters, new_chapter) ==
    IF chapters = <<>> THEN <<new_chapter>>
    ELSE IF Head(chapters).id <= new_chapter.id
         THEN <<Head(chapters)>> \o InsertById(Tail(chapters), new_chapter)
         ELSE <<new_chapter>> \o chapters

\* Lines 371-436: the directories, metadata.json with 0 chapters, an empty index.
create_book_with_metadata == [chapters_count |-> 0, chapters |-> <<>>, files |-> <<>>]

\* Lines 462-503, on a book that exists and whose files can be read and written.
AddedChapters(book, chapter_title, chapter_index) ==
    InsertById(book.chapters,
               ChapterInfo(chapter_index, chapter_title, ChapterFile(chapter_index)))

add_chapter_to_book(book, chapter_title, chapter_content, chapter_index) ==
    [chapters_count |-> Len(AddedChapters(book, chapter_title, chapter_index)),
     chapters |-> AddedChapters(book, chapter_title, chapter_index),
     files |-> WriteText(book.files, ChapterFile(chapter_index), chapter_content)]

ChapterContent(chapter_id, chapter_info, content, count) ==
    Some([chapter_id |-> chapter_id, title |-> chapter_info.title, content |-> content,
          next_chapter |-> IF chapter_id < count - 1 THEN Some(chapter_id + 1) ELSE None,
          previous_chapter |-> IF chapter_id > 0 THEN Some(chapter_id - 1) ELSE None])

\* Lines 272-300: the chapter at position chapter_id of the index.
get_chapter_content(book, chapter_id) ==
    IF book = None THEN None
    ELSE IF book[1].chapters = <<>> \/ chapter_id >= Len(book[1].chapters) THEN None
    ELSE IF book[1].chapters[chapter_id + 1].file \notin DOMAIN book[1].files THEN None
    ELSE ChapterContent(chapter_id, book[1].chapters[chapter_id + 1],
                        book[1].files[book[1].chapters[chapter_id + 1].file],
                        Len(book[1].chapters))

StorageInit ==
    /\ st_book = None
    /\ st_adds = <<>>
    /\ st_read = None

CreateBook ==
    /\ st_book = None
    /\ st_read = None
    /\ st_book' = Some(create_book_with_metadata)
    /\ UNCHANGED <<st_adds, st_read>>
    /\ UNCHANGED not_storage_vars

\* if not self.book_exists(book_id): return False
AddChapter ==
    /\ Len(st_adds) < MaxAdds
    /\ st_read = None
    /\ \E k \in ChapterIndexes, title \in ChapterTitles, text \in ChapterTexts :
           /\ st_adds' = Append(st_adds, [chapter_index |-> k, chapter_title |-> title,
                                          chapter_content |-> text, ok |-> st_book # None])
           /\ st_book' = IF st_book = None THEN None
                         ELSE Some(add_chapter_to_book(st_book[1], title, text, k))
    /\ UNCHANGED st_read
    /\ UNCHANGED not_storage_vars

GetChapterContent ==
    /\ st_read = None
    /\ \E k \in ChapterIndexes :
           st_read' = Some([chapter_id |-> k, result |-> get_chapter_content(st_book, k)])
    /\ UNCHANGED <<st_book, st_adds>>
    /\ UNCHANGED not_storage_vars

StorageNext == CreateBook \/ AddChapter \/ GetChapterContent

InitStorage == StorageInit /\ OthersIdle("add_chapter_to_book")

SpecStorage == InitStorage /\ [][StorageNext]_vars

(***************************************************************************)
(* Properties of fetch_page.                                               *)
(***************************************************************************)
\* The session.get calls made so far, in order.
Gets == SelectSeq(net_log, LAMBDA e : e.op = "get")

Returned == f_pc = "returned"

\* A retryable failure as the specification lists them: HTTP 429, HTTP 5xx, a
\* timeout or a transport error.
RetryableFailure(o) ==
    \/ o.kind \in {"timeout", "transport", "unexpected"}
    \/ o.kind = "response" /\ (o.status = 429 \/ (500 <= o.status /\ o.status < 600))

\* The message of a retryable failure.
FailureText(o) ==
    CASE o.kind = "timeout" -> "Request timed out"
      [] o.kind = "unexpected" -> "Unexpected error"
      [] o.kind = "response" /\ o.status = 429 -> "Rate limited (429)"
      [] OTHER -> "Request failed"

\* A terminal client error: 4xx other than 429.
ClientError(o) ==
    o.kind = "response" /\ 400 <= o.status /\ o.status < 500 /\ o.status # 429

\* C1: when every attempt of fetch_page fails with a retryable failure, fetch_page
\* makes exactly 3 attempts and returns no html and the last error annotated with
\* "(after 3 attempts)".
C1_RetryableExhausts ==
    (Returned /\ \A i \in 1..Len(Gets) : RetryableFailure(Gets[i].outcome[1]))
        => /\ Len(Gets) = 3
           /\ f_ret[1].html = None
           /\ f_ret[1].error # None
           /\ f_ret[1].error[1].after = 3
           /\ f_ret[1].error[1].text = FailureText(Gets[3].outcome[1])

\* Three consecutive 503 responses have been answered by the final return.
C1_Witness ==
    /\ Returned
    /\ Len(Gets) = 3
    /\ \A i \in 1..3 : Gets[i].outcome[1].kind = "response" /\ Gets[i].outcome[1].status = 503
    /\ f_ret[1].html = None
    /\ f_ret[1].error[1].after = 3

\* C2: a client error status (4xx other than 429) ends the fetch at once: the
\* response is the last thing in the log (no sleep and no request follows it),
\* fetch_page has returned an error, and a first answer of 404 means one request.
C2_ClientErrorTerminal ==
    \A i \in 1..Len(net_log) :
        (net_log[i].op = "get" /\ ClientError(net_log[i].outcome[1]))
            => /\ i = Len(net_log)
               /\ Returned
               /\ f_ret[1].html = None
               /\ f_ret[1].error # None
               /\ f_ret[1].error[1].after = 0
               /\ (i = 1 => Len(Gets) = 1)

\* A URL that answers 404 to the first request: requested exactly once.
C2_Witness ==
    /\ Returned
    /\ Len(net_log) = 1
    /\ net_log[1].op = "get"
    /\ net_log[1].outcome[1].status = 404
    /\ f_ret[1].error # None

\* C3: fetch_page never returns html above the byte limit; a Content-Length above
\* the limit is rejected before the body is read with an error naming the size in
\* MB; a decoded text above the limit is rejected after decoding; both end the
\* fetch with an error and no further attempt.
C3_SizeGuards ==
    /\ (Returned /\ f_ret[1].html # None) => f_ret[1].html[1].bytes <= max_size_bytes
    /\ \A i \in 1..Len(net_log) :
         LET e == net_log[i] IN
         (e.op = "get" /\ e.outcome[1].kind = "response" /\ e.outcome[1].status = 200) =>
            LET o == e.outcome[1] IN
            /\ (o.content_length # None /\ o.content_length[1] > max_size_bytes) =>
                  /\ ~e.body_read
                  /\ i = Len(net_log) /\ Returned
                  /\ f_ret[1].html = None
                  /\ f_ret[1].error = Some(Msg("Content too large",
                                                MBHundredths(o.content_length[1]), 0))
                  /\ (o.content_length[1] = 104857601 => f_ret[1].error[1].num = 10000)
            /\ (e.body_read /\ o.body_ok /\ o.body_bytes > max_size_bytes) =>
                  /\ i = Len(net_log) /\ Returned
                  /\ f_ret[1].html = None
                  /\ f_ret[1].error = Some(Msg("Content exceeds size limit", 0, 0))

\* Content-Length 104857601 under the 50MB limit, seen on a retry, was rejected
\* unread as 100.00MB.
C3_Witness ==
    /\ Returned
    /\ Len(Gets) = 2
    /\ Gets[2].outcome[1].content_length = Some(104857601)
    /\ ~Gets[2].body_read
    /\ f_ret[1].error = Some(Msg("Content too large", 10000, 0))

\* A decoded text above the limit was rejected after the body was read.
C3_WitnessBody ==
    /\ Returned
    /\ Len(Gets) >= 1
    /\ Gets[Len(Gets)].body_read
    /\ Gets[Len(Gets)].outcome[1].body_bytes = max_size_bytes + 1
    /\ f_ret[1].error = Some(Msg("Content exceeds size limit", 0, 0))

(***************************************************************************)
(* Properties of extract_links.                                            *)
(***************************************************************************)
\* extract_links has returned a list.
LinksReturned == links_ret # None /\ ~links_ret[1].raised

ReturnedLinks == links_ret[1].links

ReturnedNames == [i \in 1..Len(ReturnedLinks) |-> ReturnedLinks[i].name]

\* The targets of the anchors of the page, resolved against the base URL.
Targets(page, base_url) ==
    [i \in 1..Len(FindAllLinks(page)) |-> UrlJoin(base_url, Href(FindAllLinks(page)[i]))]

\* Two anchors of the page resolve to one URL.
HasDuplicateTargets(page, base_url) ==
    \E i, j \in 1..Len(Targets(page, base_url)) :
        /\ i # j
        /\ Targets(page, base_url)[i].ok
        /\ Targets(page, base_url)[i] = Targets(page, base_url)[j]

\* C4: no public entry point lets an internal parsing exception propagate to its
\* caller; for extract_links: a call of extract_links never ends by raising.
C4_NoExceptionPropagates == links_ret # None => ~links_ret[1].raised

\* extract_links has raised on the page with the href "http://[bad".
C4_LinksRaised ==
    /\ doc = HtmlDoc(<<A("/book/ch-1", "Chapter 1"), A("http://[bad", "Chapter 2")>>)
    /\ links_ret # None
    /\ links_ret[1].raised

\* C6: whichever stage produces the result, the URLs of the chapter links returned
\* by extract_links are pairwise distinct.
C6_DistinctUrls ==
    LinksReturned =>
        \A i, j \in 1..Len(ReturnedLinks) :
            i # j => ReturnedLinks[i].url # ReturnedLinks[j].url

\* A page whose list items link one target twice went through the list scans of
\* stage 4, which returned two or more links.
C6_Witness ==
    /\ LinksReturned
    /\ HasDuplicateTargets(doc, doc_url)
    /\ links_ret[1].stage = 4
    /\ Len(ReturnedLinks) >= 2

\* A page that links one target twice was answered from the stage-0 candidates.
C6_WitnessCandidates ==
    /\ LinksReturned
    /\ HasDuplicateTargets(doc, doc_url)
    /\ links_ret[1].stage \in {2, 3, 5}
    /\ Len(ReturnedLinks) >= 2

\* C7: every chapter link returned by extract_links, whichever stage produced it,
\* has an absolute URL whose host is the host of the base URL.
C7_SameHost ==
    LinksReturned =>
        \A i \in 1..Len(ReturnedLinks) :
            /\ UrlParse(ReturnedLinks[i].url).scheme # <<>>
            /\ Netloc(ReturnedLinks[i].url) = Netloc(doc_url)

\* The same for the links that stages 2, 3 and 5 return.
C7_SameHostCandidates ==
    (LinksReturned /\ links_ret[1].stage # 4) =>
        \A i \in 1..Len(ReturnedLinks) : Netloc(ReturnedLinks[i].url) = Netloc(doc_url)

\* C8: when stage 2 accepts the largest cluster, the returned list is in ascending
\* order of the last integer of each URL.
C8_AscendingByNumber ==
    (LinksReturned /\ links_ret[1].stage = 2) =>
        \A i, j \in 1..Len(ReturnedLinks) :
            (/\ i < j
             /\ LastNumber(ReturnedLinks[i].url) # None
             /\ LastNumber(ReturnedLinks[j].url) # None)
                => LastNumber(ReturnedLinks[i].url)[1] <= LastNumber(ReturnedLinks[j].url)[1]

\* The ten links /book/ch-1 ... /book/ch-10 as extract_links returns them.
TenChapters == [i \in 1..10 |-> Link(Chars("Chapter ") \o IntChars(i),
                                     Chars("http://a.com/book/ch-") \o IntChars(i))]

TenChapterPages ==
    {HtmlDoc([i \in 1..10 |-> ChapterAnchor(i)]),
     HtmlDoc([i \in 1..10 |-> ChapterAnchor(11 - i)])}

\* C9: for the links /book/ch-1 ... /book/ch-10 every pair has similarity >= 0.9,
\* the clustering gives one cluster of all ten, its pattern has coverage 1, no gap
\* and confidence 1, and extract_links returns exactly the ten from stage 2.
C9_TenChapters ==
    (doc \in TenChapterPages /\ links_ret # None) =>
        /\ LinksReturned
        /\ \A i, j \in 1..10 :
               RatGE(_calculate_url_similarity(TenChapters[i].url, TenChapters[j].url),
                     Threshold)
        /\ Len(_cluster_similar_urls(links_ret[1].candidates)) = 1
        /\ Len(_cluster_similar_urls(links_ret[1].candidates)[1]) = 10
        /\ _detect_sequential_pattern(links_ret[1].candidates) # None
        /\ RatEQ(_detect_sequential_pattern(links_ret[1].candidates)[1].coverage, Rat(1, 1))
        /\ RatEQ(_detect_sequential_pattern(links_ret[1].candidates)[1].confidence, Rat(1, 1))
        /\ _detect_sequential_pattern(links_ret[1].candidates)[1].gaps = 0
        /\ links_ret[1].stage = 2
        /\ Len(ReturnedLinks) = 10
        /\ {ReturnedLinks[i] : i \in 1..10} = {TenChapters[i] : i \in 1..10}

\* The page of the ten chapter links in order has been answered with ten links.
C9_Witness ==
    /\ doc = HtmlDoc([i \in 1..10 |-> ChapterAnchor(i)])
    /\ LinksReturned
    /\ ReturnedLinks = TenChapters

\* The pages that hold the links 'Chapter 1', 'Chapter 2' and 'About Us', with URLs
\* that form no cluster, in any order and in any of the three placements.
TextHeuristicAnchors == {A("/one", "Chapter 1"), A("/two", "Chapter 2"), A("/about", "About Us")}

TextHeuristicPages ==
    {HtmlDoc(Place(anchors, where)) :
        anchors \in {f \in [1..3 -> TextHeuristicAnchors] : \A i, j \in 1..3 : i # j => f[i] # f[j]},
        where \in Placements}

\* C10: on such a page extract_links returns exactly the two chapter-named links
\* and never 'About Us'.
C10_TextHeuristics ==
    (doc \in TextHeuristicPages /\ links_ret # None) =>
        /\ LinksReturned
        /\ {ReturnedNames[i] : i \in 1..Len(ReturnedNames)} = {Chars("Chapter 1"), Chars("Chapter 2")}
        /\ Len(ReturnedLinks) = 2

\* The same with the three links as plain anchors of the body, and the stage that
\* selects them.
C10_PlainAnchorsStage3 ==
    (doc \in TextHeuristicPages /\ FindAllTags(doc, {"li"}) = <<>> /\ links_ret # None) =>
        links_ret[1].stage = 3

(***************************************************************************)
(* Properties of extract_content.                                          *)
(***************************************************************************)
\* The p elements of the page with visible text and no ancestor among the noise
\* tags.
VisibleParagraphs(page) ==
    SelectSeq(FindAllTags(Decompose(page, ContentNoiseTags), {"p"}),
              LAMBDA p : GetTextStrip(p) # <<>>)

\* The walk root extract_content selects on the page.
WalkRoot(page) == MainContent(Decompose(page, ContentNoiseTags), ContentSelectors)

\* C5: the text extract_content returns contains the visible text of every p
\* element that has visible text and no noise ancestor, whichever walk root is
\* selected.
C5_ParagraphsKept ==
    content_ret # None =>
        \A i \in 1..Len(VisibleParagraphs(c_doc)) :
            Contains(content_ret[1].text, _clean_text(GetTextStrip(VisibleParagraphs(c_doc)[i])))

\* The same for the p elements that are children of a walk root that is a div, a
\* section, an article or a main.
C5_ChildParagraphsKept ==
    (content_ret # None /\ WalkRoot(c_doc).tag \in Containers) =>
        \A i \in 1..Len(ChildTags(WalkRoot(c_doc), {"p"})) :
            Contains(content_ret[1].text,
                     _clean_text(GetTextStrip(ChildTags(WalkRoot(c_doc), {"p"})[i])))

\* <html><body><p>Hello</p></body></html> has been answered with the empty text.
C5_BodyRootEmpty ==
    /\ c_doc = HtmlDoc(<<P(<<TextNode("Hello")>>)>>)
    /\ content_ret # None
    /\ content_ret[1].text = <<>>

(***************************************************************************)
(* Properties of container tracking.                                       *)
(***************************************************************************)
\* The (type, id, classes) key of a container descriptor.
ContainerKey(c) == <<c.type, c.id, c.classes>>

\* The container list a call of extract_content returned (tracking requested).
TrackedContainers == content_ret[1].containers[1]

Tracked == content_ret # None /\ content_ret[1].containers # None

\* C11: when tracking is requested, no two descriptors of the container list
\* returned by extract_content share their (type, id, classes) key.
C11_UniqueContainerKeys ==
    Tracked =>
        \A i, j \in 1..Len(TrackedContainers) :
            i # j => ContainerKey(TrackedContainers[i]) # ContainerKey(TrackedContainers[j])

\* A tracked call in chinese mode has returned two descriptors of two plain divs.
C11_ChineseDuplicateKeys ==
    /\ Tracked
    /\ Len(TrackedContainers) = 2
    /\ ContainerKey(TrackedContainers[1]) = <<"div", None, None>>
    /\ ContainerKey(TrackedContainers[2]) = <<"div", None, None>>

\* A tracked call in normal mode has walked two different divs of one key under
\* an article and returned one descriptor for the two.
C11_NormalModeDeduplicated ==
    /\ Tracked
    /\ WalkRoot(c_doc).tag = "article"
    /\ Len(ChildTags(WalkRoot(c_doc), {"div"})) = 2
    /\ ChildTags(WalkRoot(c_doc), {"div"})[1] # ChildTags(WalkRoot(c_doc), {"div"})[2]
    /\ Len(TrackedContainers) = 2
    /\ TrackedContainers[1].type = "div"
    /\ TrackedContainers[2].type = "article"

(***************************************************************************)
(* Properties of _clean_text.                                              *)
(***************************************************************************)
\* C12: _clean_text is idempotent: a text that has been cleaned is left as it is
\* by a further cleaning.
C12_Idempotent == clean_count >= 1 => _clean_text(clean_text) = clean_text

\* A text with three newlines separated by a space has been cleaned twice: the
\* first cleaning changed it, the second did not.
C12_Witness ==
    /\ clean_count = 2
    /\ clean_in = <<"a", "\n", " ", "\n", "\n", "a">>
    /\ clean_text = <<"a", "\n", "\n", "a">>

(***************************************************************************)
(* Properties of the cleaned text.                                         *)
(***************************************************************************)
NoBlankRun(text) == ~Contains(text, <<"\n", "\n", "\n">>)
NoSpaceRun(text) == ~Contains(text, <<" ", " ">>)
LinesTrimmed(lines) == \A i \in 1..Len(lines) : Strip(lines[i]) = lines[i]
CleanShape(text) ==
    NoBlankRun(text) /\ NoSpaceRun(text) /\ LinesTrimmed(SplitOn(text, "\n"))

\* C13: the text returned by extract_content and the text returned by
\* extract_content_from_selected_containers never hold three consecutive
\* newlines, a line with leading or trailing whitespace, or two consecutive
\* spaces.
C13_CleanedOutput ==
    /\ content_ret # None => CleanShape(content_ret[1].text)
    /\ selected_ret # None => CleanShape(selected_ret[1])

\* Both functions have returned the text of an article whose text node holds
\* three newlines with spaces between them and a run of two spaces.
C13_Witness ==
    /\ c_doc = HtmlDoc(Wrap(<<TextNode("  loose \n\n \n two  words ")>>, "article"))
    /\ content_ret # None
    /\ content_ret[1].text = Chars("loose\n\ntwo words")
    /\ sel_indices = Some(<<0>>)
    /\ selected_ret = Some(Chars("loose\n\ntwo words"))

(***************************************************************************)
(* Properties of the chinese-mode root.                                    *)
(***************************************************************************)
StrippedLength(element) == Len(GetTextStrip(element))
IdeographCount(text) == Len(SelectSeq(text, LAMBDA c : c \in {Han, HanExtA, HanExtB}))
\* More than half of the characters that are not whitespace are ideographs.
DenseText(text_no_whitespace) ==
    2 * IdeographCount(text_no_whitespace) > Len(text_no_whitespace)
Qualifies(element) ==
    StrippedLength(element) >= 50 /\ DenseText(NoWhitespace(GetTextStrip(element)))
Qualifying(body) ==
    SelectSeq(FindAllTags(body, {"div", "section", "article", "main", "p"}), Qualifies)
LargestOf(root, qualifying, body) ==
    IF qualifying = <<>> THEN root = body
    ELSE /\ \E i \in 1..Len(qualifying) : qualifying[i] = root
         /\ \A i \in 1..Len(qualifying) : StrippedLength(qualifying[i]) <= StrippedLength(root)
RootIsLargest(root, body) == LargestOf(root, Qualifying(body), body)

\* C14: in chinese mode the walk root is a longest element among the div,
\* section, article, main and p elements under body whose stripped text has at
\* least 50 characters and a share of ideographs above one half, and it is body
\* when there is no such element.
C14_LargestMajorityContainer ==
    c_main # None =>
        RootIsLargest(c_main[1], BodyElement(Decompose(c_doc, ContentNoiseTags)))

\* A page whose only qualifying container has 500 characters, 400 of them
\* ideographs, next to a section of 60 letters: the container is the root.
C14_Witness ==
    /\ c_doc = HtmlDoc(<<Elem("p", NoAttrs, <<TextOf(MixedText(400, 100))>>),
                         Elem("section", NoAttrs, <<TextOf(MixedText(0, 60))>>)>>)
    /\ content_ret # None
    /\ c_main = Some(Elem("p", NoAttrs, <<TextOf(MixedText(400, 100))>>))

\* A page whose containers have a share of exactly one half or 49 characters:
\* the root is body.
C14_NoneQualifies ==
    /\ c_doc = HtmlDoc(<<Elem("div", NoAttrs, <<TextOf(MixedText(25, 25))>>),
                         Elem("div", NoAttrs, <<TextOf(MixedText(49, 0))>>)>>)
    /\ c_main # None
    /\ c_main[1].tag = "body"

(***************************************************************************)
(* Properties of extract_metadata.                                         *)
(***************************************************************************)
MetadataReturned == metadata_ret # None

\* A field that is present, not empty and trimmed.
Proper(field) == field # None /\ field[1] # <<>> /\ Strip(field[1]) = field[1]

\* The first source of the sequence whose text is not blank, trimmed; the last
\* resort when there is none.
RECURSIVE FirstNonBlank(_, _)
FirstNonBlank(sources, last_resort) ==
    IF sources = <<>> THEN last_resort
    ELSE IF Head(sources) # None /\ Strip(Head(sources)[1]) # <<>>
         THEN Some(Strip(Head(sources)[1]))
         ELSE FirstNonBlank(Tail(sources), last_resort)

\* The content attribute of a meta element, when there is one.
ContentAttr(element) ==
    IF element # None /\ element[1].attrs.content # None
    THEN Some(Chars(element[1].attrs.content[1]))
    ELSE None

\* The text of an element, when there is one.
TextOfElement(element) == IF element # None THEN Some(GetText(element[1])) ELSE None

TitleSources(html) ==
    <<ContentAttr(FindMeta(html, "property", "og:title")),
      TextOfElement(Find(html, "title")),
      TextOfElement(Find(html, "h1"))>>

\* C15: the title is never empty and is the first of og:title, the title
\* element and the first h1 that is not missing or empty, or "Scraped from
\* {url}" when there is none.
C15_TitlePriority ==
    MetadataReturned =>
        /\ Proper(metadata_ret[1].title)
        /\ metadata_ret[1].title =
               FirstNonBlank(TitleSources(m_doc), Some(Chars("Scraped from ") \o Chars(m_url)))

\* A page with an empty title element and a heading: the title returned is the
\* synthesized one.
C15_EmptyTitleHidesHeading ==
    /\ m_doc = MetaDoc(None, <<Elem("title", NoAttrs, <<>>)>>,
                       <<Elem("h1", NoAttrs, <<TextNode("Heading")>>)>>)
    /\ MetadataReturned
    /\ metadata_ret[1].title = Some(Chars("Scraped from http://example.com/book"))

\* The primary subtag of an attribute value, when there is one.
SubtagOf(value) == IF value # None THEN Some(PrimarySubtag(Chars(value[1]))) ELSE None

LangMetaContent(lang_meta) ==
    IF lang_meta # None THEN lang_meta[1].attrs.content ELSE None

LanguageSources(html, html_tag, detected) ==
    <<SubtagOf(IF html_tag # None THEN html_tag[1].attrs.lang ELSE None),
      SubtagOf(LangMetaContent(OrElse(FindMeta(html, "http_equiv", "content-language"),
                                      FindMeta(html, "name", "language")))),
      IF extract_content(html, FALSE).text # <<>> /\ detected # None
      THEN Some(Chars(detected[1])) ELSE None>>

\* C16: the language is never absent or empty: it is the primary subtag of the
\* lang attribute of html, else of the language meta, else the detected
\* language, and "en" when none of these gives a value.
C16_LanguagePresent ==
    MetadataReturned =>
        /\ Proper(metadata_ret[1].language)
        /\ metadata_ret[1].language =
               FirstNonBlank(LanguageSources(m_doc, Find(m_doc, "html"), m_detect),
                             Some(Chars("en")))

\* A page whose html element has lang="-US": the language returned is the
\* empty string.
C16_EmptySubtag ==
    /\ Find(m_doc, "html")[1].attrs.lang = Some("-US")
    /\ MetadataReturned
    /\ metadata_ret[1].language = Some(<<>>)

\* A page whose html element has a lang attribute of one space: no language is
\* returned.
C16_BlankLangAbsent ==
    /\ Find(m_doc, "html")[1].attrs.lang = Some(" ")
    /\ MetadataReturned
    /\ metadata_ret[1].language = None

\* C17: every string field of the metadata is trimmed and is never the empty
\* string: a field is absent or holds a trimmed text that is not empty.
C17_FieldsTrimmedOrAbsent ==
    MetadataReturned =>
        \A key \in {"title", "author", "description", "language"} :
            metadata_ret[1][key] = None \/ Proper(metadata_ret[1][key])

\* A page with an empty element of class author: the author returned is the
\* empty string.
C17_EmptyAuthor ==
    /\ SelectOne(m_doc, SelClass("author")) = Some(Elem("span", [NoAttrs EXCEPT !.class = <<"author">>], <<>>))
    /\ FindMeta(m_doc, "name", "author") = None
    /\ MetadataReturned
    /\ metadata_ret[1].author = Some(<<>>)

\* A blank description is reported as absent.
C17_BlankDescriptionAbsent ==
    /\ HasContent(FindMeta(m_doc, "name", "description"))
    /\ MetadataReturned
    /\ metadata_ret[1].description = None

(***************************************************************************)
(* Properties of execute_scrape.                                           *)
(***************************************************************************)
ScrapeReturned == es_response # None

\* The URLs scrape_page was called with, in order.
CalledUrls == [i \in 1..Len(es_calls) |-> es_calls[i].url]
\* The calls that failed, and the URLs of those that did not, in order.
FailedCalls == SelectSeq(es_calls, LAMBDA c : c.error # None)
SucceededUrls(calls) == [i \in 1..Len(calls) |-> calls[i].url]
\* The URLs of the chapters, the 'Index' chapter of the hybrid mode left aside.
ChapterUrlsOf(chapters) ==
    SucceededUrls(SelectSeq(chapters, LAMBDA ch : ch.url # IndexUrl))
\* The errors recorded for chapter URLs, in order.
RecordedFailures(errs) == SelectSeq(errs, LAMBDA e : e.failed # "index page")

Sleeps == SelectSeq(net_log, LAMBDA e : e.op = "sleep")

\* C19: the k-th sleep of a fetch lasts 2^k seconds and is what comes right
\* before the k-th retry; nothing is slept before the first attempt or after
\* the last one.
C19_ExponentialBackoff ==
    /\ \A k \in 1..Len(Sleeps) : Sleeps[k].delay = 2 ^ k
    /\ \A i \in 1..Len(net_log) :
          /\ (net_log[i].op = "get" /\ net_log[i].attempt = 0) => i = 1
          /\ (net_log[i].op = "get" /\ net_log[i].attempt > 0) =>
                /\ net_log[i - 1].op = "sleep"
                /\ net_log[i - 1].delay = 2 ^ net_log[i].attempt
          /\ net_log[i].op = "sleep" => i > 1 /\ net_log[i - 1].op = "get"
    /\ net_log # <<>> => net_log[1].op = "get"
    /\ Returned => net_log[Len(net_log)].op = "get"

\* A fetch of three attempts has ended: it slept 2 seconds, then 4.
C19_Witness ==
    /\ Returned
    /\ Len(Gets) = 3
    /\ Len(Sleeps) = 2
    /\ Sleeps[1].delay = 2
    /\ Sleeps[2].delay = 4

\* C20: the first attempt is sent without a Referer, every later attempt with
\* the Referer scheme://netloc/ of the requested URL, and the headers of the
\* session are those configured, without a Referer.
C20_RefererOnRetries ==
    /\ \A i \in 1..Len(Gets) :
          IF Gets[i].attempt = 0
          THEN /\ "Referer" \notin Gets[i].headers[1].names
               /\ Gets[i].headers[1].referer = None
          ELSE /\ "Referer" \in Gets[i].headers[1].names
               /\ Gets[i].headers[1].referer =
                     Some([scheme |-> f_url.scheme, netloc |-> f_url.netloc, path |-> "/"])
    /\ \A i \in 1..Len(Gets) : Gets[i].attempt = i - 1
    /\ session_headers = ConfiguredHeaders
    /\ "Referer" \notin session_headers

\* A fetch of https://a.com/book/index.html has ended after three attempts: the
\* first went without a Referer, the third with https://a.com/.
C20_Witness ==
    /\ Returned
    /\ f_url = [scheme |-> "https", netloc |-> "a.com", path |-> "/book/index.html"]
    /\ Len(Gets) = 3
    /\ Gets[1].headers[1].referer = None
    /\ Gets[3].headers[1].referer = Some([scheme |-> "https", netloc |-> "a.com", path |-> "/"])
    /\ Gets[3].headers[1].names = ConfiguredHeaders \cup {"Referer"}

(***************************************************************************)
(* Properties of URL clustering.                                           *)
(***************************************************************************)
\* The similarity of two links.
ScoreBetween(a, b) == _calculate_url_similarity(a.url, b.url)

ClusterMembers(cluster) == {cluster[k] : k \in 1..Len(cluster)}

\* C21: every cluster _cluster_similar_urls returns has at least 2 members, no
\* link is in two clusters, and every two members of one cluster have a
\* similarity of at least 0.9 with each other.
C21_ClustersSound ==
    sim_clusters # None =>
        /\ \A c \in 1..Len(sim_clusters[1]) : Len(sim_clusters[1][c]) >= 2
        /\ \A c, d \in 1..Len(sim_clusters[1]) :
               c # d => ClusterMembers(sim_clusters[1][c])
                            \cap ClusterMembers(sim_clusters[1][d]) = {}
        /\ \A c \in 1..Len(sim_clusters[1]) :
               \A a, b \in ClusterMembers(sim_clusters[1][c]) :
                   RatGE(ScoreBetween(a, b), Rat(9, 10))

\* The part of C21 the code keeps: at least 2 members, clusters disjoint, and
\* every member within 0.9 of the first member of its cluster.
C21_SeedSound ==
    sim_clusters # None =>
        /\ \A c \in 1..Len(sim_clusters[1]) : Len(sim_clusters[1][c]) >= 2
        /\ \A c, d \in 1..Len(sim_clusters[1]) :
               c # d => ClusterMembers(sim_clusters[1][c])
                            \cap ClusterMembers(sim_clusters[1][d]) = {}
        /\ \A c \in 1..Len(sim_clusters[1]) :
               \A a \in ClusterMembers(sim_clusters[1][c]) :
                   RatGE(ScoreBetween(sim_clusters[1][c][1], a), Rat(9, 10))

\* Three links of ten path segments are returned as one cluster although the
\* second and the third differ in two segments and score 0.8.
C21_FarMembers ==
    /\ sim_clusters # None
    /\ Len(sim_clusters[1]) = 1
    /\ Len(sim_clusters[1][1]) = 3
    /\ RatEQ(ScoreBetween(sim_clusters[1][1][2], sim_clusters[1][1][3]), Rat(8, 10))

(***************************************************************************)
(* Properties of the content previews.                                     *)
(***************************************************************************)
\* C22: every descriptor extract_content reports has a content_preview of at
\* most 200 characters, the ellipsis of a truncated text included.
C22_PreviewAtMost200 ==
    Tracked =>
        \A i \in 1..Len(TrackedContainers) :
            Len(TrackedContainers[i].content_preview) <= 200

\* A tracked call in chinese mode has reported a container of 500 characters
\* with a preview of 203: the first 200 and the three dots.
C22_LongPreview ==
    /\ Tracked
    /\ \E i \in 1..Len(TrackedContainers) :
           /\ TrackedContainers[i].content_length = 500
           /\ Len(TrackedContainers[i].content_preview) = 203
           /\ SubSeq(TrackedContainers[i].content_preview, 201, 203) = <<".", ".", ".">>

(***************************************************************************)
(* Properties of the order of the stages of extract_links.                 *)
(***************************************************************************)
\* What each stage finds on the page of the call, each computed on its own.
StageCandidates == links_ret[1].candidates
StageCluster == UrlPatternStage(StageCandidates)
StageTextMatches == SelectSeq(StageCandidates, LAMBDA l : is_chapter_like(l.name))
StageListLinks ==
    ListFallback(MainContent(Decompose(doc, LinkNoiseTags), LinkSelectors), doc_url)
StageLenient ==
    SelectSeq(StageCandidates, LAMBDA l : Len(l.name) > 1 /\ Len(l.name) < 150)

\* The result of the first stage that succeeds.
FirstSuccess(cluster, text_matches, list_links, lenient) ==
    IF cluster # None THEN cluster[1]
    ELSE IF Len(text_matches) >= 3 THEN text_matches
    ELSE IF Len(list_links) >= 1 THEN list_links
    ELSE lenient

\* C23: extract_links returns the result of the first stage that succeeds,
\* unaltered: the stage-2 cluster when its confidence is above 0.8, else the
\* stage-3 text matches when there are 3 or more, else the stage-4 list links
\* when there is one, else the stage-0 candidates with a name of 2 to 149
\* characters.
C23_FirstSuccessfulStage ==
    LinksReturned =>
        ReturnedLinks = FirstSuccess(StageCluster, StageTextMatches, StageListLinks,
                                     StageLenient)

\* Stage 3 has succeeded with three text matches on a page where no cluster
\* was accepted and where the list scan of stage 4 would have found another,
\* non-empty list; the three matches are what the call returned.
C23_Witness ==
    /\ LinksReturned
    /\ StageCluster = None
    /\ Len(StageTextMatches) = 3
    /\ Len(StageListLinks) = 1
    /\ StageListLinks[1] \notin {StageTextMatches[i] : i \in 1..3}
    /\ ReturnedLinks = StageTextMatches

(***************************************************************************)
(* Properties of the sequential pattern of the largest cluster.            *)
(***************************************************************************)
PatternCluster == sim_pattern[1].cluster
PatternInfo == sim_pattern[1].info

HasDigit(url) == \E k \in 1..Len(url) : IsDigit(url[k])

\* The links of the largest cluster whose URL contains an integer.
NumberedLinks == {i \in 1..Len(PatternCluster) : HasDigit(PatternCluster[i].url)}

\* The last integer of each of them.
ClusterNumbers == {LastNumber(PatternCluster[i].url)[1] : i \in NumberedLinks}

ClusterSpan == SetMax(ClusterNumbers) - SetMin(ClusterNumbers) + 1

\* 0.5 + 0.5 * (1 if coverage >= 0.5 else 2 * coverage)
ExpectedConfidence(coverage) ==
    IF 2 * coverage.num >= coverage.den THEN Rat(1, 1)
    ELSE Rat(5 * coverage.den + 10 * coverage.num, 10 * coverage.den)

\* C24: the pattern of the largest cluster has coverage = unique / (max - min + 1)
\* in (0, 1], gaps = (max - min + 1) - unique >= 0 and confidence = 0.5 + 0.5 *
\* (1 if coverage >= 0.5 else 2 * coverage); stage 2 accepts the cluster exactly
\* when two or more of its URLs contain an integer and the confidence is above
\* 0.8, which is exactly when the coverage is above 0.3.
C24_PatternArithmetic ==
    sim_pattern # None =>
        /\ PatternInfo # None <=> Cardinality(NumberedLinks) >= 2
        /\ PatternInfo # None =>
               /\ PatternInfo[1].count = Cardinality(ClusterNumbers)
               /\ PatternInfo[1].min = SetMin(ClusterNumbers)
               /\ PatternInfo[1].max = SetMax(ClusterNumbers)
               /\ RatEQ(PatternInfo[1].coverage, Rat(Cardinality(ClusterNumbers), ClusterSpan))
               /\ RatGT(PatternInfo[1].coverage, Rat(0, 1))
               /\ RatGE(Rat(1, 1), PatternInfo[1].coverage)
               /\ PatternInfo[1].gaps = ClusterSpan - Cardinality(ClusterNumbers)
               /\ PatternInfo[1].gaps >= 0
               /\ RatEQ(PatternInfo[1].confidence,
                        ExpectedConfidence(PatternInfo[1].coverage))
        /\ sim_pattern[1].accepted <=>
               /\ Cardinality(NumberedLinks) >= 2
               /\ RatGT(PatternInfo[1].confidence, Rat(8, 10))
        /\ sim_pattern[1].accepted <=>
               /\ Cardinality(NumberedLinks) >= 2
               /\ RatGT(Rat(Cardinality(ClusterNumbers), ClusterSpan), Rat(3, 10))

\* The cluster of chapters 1, 2 and 10 has coverage 3/10 and confidence exactly
\* 0.8, and stage 2 has not accepted it.
C24_Witness ==
    /\ sim_pattern # None
    /\ PatternInfo # None
    /\ ClusterNumbers = {1, 2, 10}
    /\ PatternInfo[1].gaps = 7
    /\ RatEQ(PatternInfo[1].coverage, Rat(3, 10))
    /\ RatEQ(PatternInfo[1].confidence, Rat(8, 10))
    /\ ~sim_pattern[1].accepted

\* The cluster of chapters 1 and 5 has coverage 2/5 and confidence 0.9, and stage
\* 2 has accepted it.
C24_SparseAccepted ==
    /\ sim_pattern # None
    /\ PatternInfo # None
    /\ ClusterNumbers = {1, 5}
    /\ RatEQ(PatternInfo[1].confidence, Rat(9, 10))
    /\ sim_pattern[1].accepted

(***************************************************************************)
(* Properties of _calculate_url_similarity.                                *)
(***************************************************************************)
\* The reference definition, on URLs of the form scheme://host/seg/.../seg read
\* off their characters: the host lies between the two slashes after the scheme
\* and the next slash, the path segments are what the later slashes separate.
AfterScheme(url) == SubSeq(url, FirstOf(url, {":"}) + 3, Len(url))
HostOf(url) == SplitOn(AfterScheme(url), "/")[1]
SegmentsOf(url) == Tail(SplitOn(AfterScheme(url), "/"))

WithoutDigits(seg) == SelectSeq(seg, LAMBDA c : c \notin Digits)

\* In tenths: 10 for equal segments, 9 for segments equal once their digits are
\* removed with something left, else 0.
RefSegment(seg1, seg2) ==
    IF seg1 = seg2 THEN 10
    ELSE IF WithoutDigits(seg1) = WithoutDigits(seg2) /\ Len(WithoutDigits(seg1)) > 0 THEN 9
    ELSE 0

RefAverage(segs1, segs2) ==
    Rat(SumSeq([k \in 1..Len(segs1) |-> RefSegment(segs1[k], segs2[k])]), 10 * Len(segs1))

RefSimilarity(url1, url2) ==
    IF HostOf(url1) # HostOf(url2) \/ Len(SegmentsOf(url1)) # Len(SegmentsOf(url2))
    THEN Rat(0, 1)
    ELSE RefAverage(SegmentsOf(url1), SegmentsOf(url2))

\* C27: _calculate_url_similarity equals the reference definition on every pair
\* of URLs (0 when the hosts or the numbers of path segments differ, else the
\* average of 1.0 / 0.9 / 0 over the segment positions); it is symmetric, lies
\* in [0, 1] and is 1.0 for a URL compared with itself.
C27_SimilarityIsReference ==
    sim_scores # None =>
        \A i, j \in 1..Len(sim_urls) :
            /\ RatEQ(sim_scores[1][i][j], RefSimilarity(sim_urls[i].url, sim_urls[j].url))
            /\ RatEQ(sim_scores[1][i][j], sim_scores[1][j][i])
            /\ RatGE(sim_scores[1][i][j], Rat(0, 1))
            /\ RatGE(Rat(1, 1), sim_scores[1][i][j])
            /\ i = j => RatEQ(sim_scores[1][i][j], Rat(1, 1))

\* The similarities of /12/ch-1, /book/ch-5 on the same host and /book/ch-1 on
\* another host have been computed: 0.45 for the first two (0 for the digits
\* against the word, 0.9 for ch-1 against ch-5), 0 across hosts, 1.0 on the
\* diagonal.
C27_Witness ==
    /\ sim_scores # None
    /\ Len(sim_urls) = 3
    /\ sim_urls[1].url = Chars("http://a.com/12/ch-1")
    /\ sim_urls[2].url = Chars("http://a.com/book/ch-5")
    /\ sim_urls[3].url = Chars("http://b.org/book/ch-1")
    /\ RatEQ(sim_scores[1][1][2], Rat(9, 20))
    /\ RatEQ(sim_scores[1][2][3], Rat(0, 1))
    /\ RatEQ(sim_scores[1][3][3], Rat(1, 1))

(***************************************************************************)
(* Properties of the list scans of stage 4.                                *)
(***************************************************************************)
\* The links the anchors inside the lists stand for: their text and their
\* resolved target.
AnchorsOf(lists) == Concat([i \in 1..Len(lists) |-> FindAllLinks(lists[i])])
LinksOf(anchors) ==
    {Link(GetTextStrip(anchors[k]), UrlJoin(doc_url, Href(anchors[k])).url) :
        k \in 1..Len(anchors)}

\* The links inside the ordered lists, and inside the unordered lists that do
\* not look like a menu.
OrderedLinksIn(main_content) == LinksOf(AnchorsOf(FindAllTags(main_content, {"ol"})))
PlainListLinksIn(main_content) ==
    LinksOf(AnchorsOf(SelectSeq(FindAllTags(main_content, {"ul"}),
                                LAMBDA ul : ~LooksLikeMenu(ul))))
FromOrderedLists(main_content) ==
    ScanOrderedLists(ListLinks(FindAllTags(main_content, {"ol"})), 1, doc_url, <<>>)

ListLinksBounded(links, ordered, plain, from_ol) ==
    /\ \A i \in 1..Len(links) :
           /\ Len(links[i].name) > 0
           /\ Len(links[i].name) < 200
           /\ links[i] \in ordered \cup plain
    /\ Len(from_ol) >= 3 => links = from_ol

UnorderedBounded(links, ordered, plain, from_ol) ==
    /\ \A i \in 1..Len(links) :
           /\ Len(links[i].name) > 0
           /\ links[i] \in ordered \/ Len(links[i].name) < 200
           /\ links[i] \in ordered \cup plain
    /\ Len(from_ol) >= 3 => links = from_ol

ListLinksBoundedIn(main_content) ==
    ListLinksBounded(ReturnedLinks, OrderedLinksIn(main_content),
                     PlainListLinksIn(main_content), FromOrderedLists(main_content))

UnorderedBoundedIn(main_content) ==
    UnorderedBounded(ReturnedLinks, OrderedLinksIn(main_content),
                     PlainListLinksIn(main_content), FromOrderedLists(main_content))

\* C25: every link returned by stage 4 has a non-empty name shorter than 200
\* characters, whether it comes from an ordered or an unordered list; none comes
\* from a ul whose class contains 'nav' or 'menu'; and the unordered lists are
\* scanned only when the ordered lists gave fewer than 3 links.
C25_ListLinksBounded ==
    (LinksReturned /\ links_ret[1].stage = 4) =>
        ListLinksBoundedIn(MainContent(Decompose(doc, LinkNoiseTags), LinkSelectors))

\* What the code keeps of C25: the names are not empty, those of the links that
\* are in no ordered list are shorter than 200, every link is in an ordered
\* list or in an unordered list that is no menu, and 3 links of ordered lists
\* end the scan.
C25_UnorderedBounded ==
    (LinksReturned /\ links_ret[1].stage = 4) =>
        UnorderedBoundedIn(MainContent(Decompose(doc, LinkNoiseTags), LinkSelectors))

\* Stage 4 has returned the link of an ordered list whose name is 200
\* characters long.
C25_LongOrderedName ==
    /\ LinksReturned
    /\ links_ret[1].stage = 4
    /\ Len(ReturnedLinks) = 1
    /\ Len(ReturnedLinks[1].name) = 200
    /\ ReturnedLinks[1].url = Chars("http://a.com/book/long")

(***************************************************************************)
(* Properties of the candidates of stage 0.                                *)
(***************************************************************************)
\* The absolute URL each anchor stands for, None for an anchor with an empty
\* href or an in-page href.
AnchorTarget(href) ==
    IF href = <<>> \/ Head(href) = "#" THEN None ELSE Some(UrlJoin(doc_url, href).url)
AnchorTargets(all_links) ==
    SubSeq([k \in 1..Len(all_links) |-> AnchorTarget(Href(all_links[k]))],
           1, Len(all_links))

\* The first anchor in document order that stands for the URL.
FirstOccurrence(targets, url) == SetMin({k \in 1..Len(targets) : targets[k] = Some(url)})

NameIsClean(name) ==
    /\ Len(name) > 0
    /\ \A p \in 1..Len(skip_patterns) : ~Contains(Lower(name), Chars(skip_patterns[p]))

\* Every candidate is the first anchor of its URL, the candidates are in the
\* order of these anchors, and their names are clean.
FirstOccurrences(candidates, all_links, targets) ==
    /\ \A i \in 1..Len(candidates) :
           /\ \A k \in {FirstOccurrence(targets, candidates[i].url)} :
                  GetTextStrip(all_links[k]) = candidates[i].name
           /\ NameIsClean(candidates[i].name)
    /\ \A i, j \in 1..Len(candidates) :
           i < j => FirstOccurrence(targets, candidates[i].url)
                        < FirstOccurrence(targets, candidates[j].url)

\* Every candidate is an anchor of the page and no URL is kept twice, the
\* candidates are in document order, and their names are clean.
SomeOccurrences(candidates, all_links, targets) ==
    /\ \A i \in 1..Len(candidates) :
           /\ \E k \in 1..Len(all_links) :
                  /\ targets[k] = Some(candidates[i].url)
                  /\ GetTextStrip(all_links[k]) = candidates[i].name
           /\ NameIsClean(candidates[i].name)
    /\ \A i, j \in 1..Len(candidates) :
           i < j =>
               /\ candidates[i].url # candidates[j].url
               /\ \E k, m \in 1..Len(all_links) :
                      /\ k < m
                      /\ targets[k] = Some(candidates[i].url)
                      /\ GetTextStrip(all_links[k]) = candidates[i].name
                      /\ targets[m] = Some(candidates[j].url)
                      /\ GetTextStrip(all_links[m]) = candidates[j].name

FirstOccurrencesOf(all_links) ==
    FirstOccurrences(links_ret[1].candidates, all_links, AnchorTargets(all_links))

SomeOccurrencesOf(all_links) ==
    SomeOccurrences(links_ret[1].candidates, all_links, AnchorTargets(all_links))

\* C26: stage 0 keeps for each absolute URL its first occurrence in document
\* order only, in insertion order: an anchor whose URL an earlier anchor of the
\* page already had never becomes a candidate, and every candidate has a
\* non-empty name without any word of the navigational blacklist.
C26_FirstOccurrenceKept ==
    LinksReturned =>
        FirstOccurrencesOf(
            FindAllLinks(MainContent(Decompose(doc, LinkNoiseTags), LinkSelectors)))

\* What the code keeps of C26: no URL is a candidate twice, the candidates are
\* anchors of the page in document order, and their names are clean.
C26_OneOccurrenceKept ==
    LinksReturned =>
        SomeOccurrencesOf(
            FindAllLinks(MainContent(Decompose(doc, LinkNoiseTags), LinkSelectors)))

\* The page links /book/ch-1 twice, first as 'Home'; the candidate for that URL
\* is the second anchor, 'Chapter 1'.
C26_LaterOccurrenceKept ==
    /\ LinksReturned
    /\ doc = HtmlDoc(<<A("/book/ch-1", "Home"), A("/book/ch-1", "Chapter 1"),
                       A("/book/ch-2", "Chapter 2")>>)
    /\ Len(links_ret[1].candidates) = 2
    /\ links_ret[1].candidates[1] = Link(Chars("Chapter 1"), Chars("http://a.com/book/ch-1"))

(***************************************************************************)
(* Properties of the end of fetch_page.                                    *)
(***************************************************************************)
\* An attempt succeeds when a response without an error status comes back, its
\* Content-Length, if any, is a number within the limit, and its body is read
\* and is within the limit.
Succeeds(o) ==
    /\ o.kind = "response"
    /\ o.status < 400
    /\ o.content_length # None =>
           o.content_length[1] >= 0 /\ o.content_length[1] <= max_size_bytes
    /\ o.body_ok
    /\ o.body_bytes <= max_size_bytes

\* C28: fetch_page stops at the first attempt that succeeds: that attempt is the
\* last entry of the log (no attempt and no sleep follows it) and its html is
\* returned without an error, whatever failed before it; html is returned by a
\* successful attempt only; of every returned pair exactly one of html and error
\* is absent; and there are never more than 3 attempts.
C28_StopsAtFirstSuccess ==
    /\ \A i \in 1..Len(net_log) :
          (net_log[i].op = "get" /\ Succeeds(net_log[i].outcome[1])) =>
              /\ i = Len(net_log)
              /\ Returned
              /\ f_ret[1].html # None
              /\ f_ret[1].html[1].bytes = net_log[i].outcome[1].body_bytes
              /\ f_ret[1].error = None
    /\ (Returned /\ f_ret[1].html # None) =>
          /\ net_log[Len(net_log)].op = "get"
          /\ Succeeds(net_log[Len(net_log)].outcome[1])
    /\ Returned => (f_ret[1].html = None) # (f_ret[1].error = None)
    /\ Len(Gets) <= 3

\* The third attempt has succeeded after a 503 and a timeout: five entries in
\* the log, the last one the successful request, and its html returned.
C28_Witness ==
    /\ Returned
    /\ Len(net_log) = 5
    /\ Len(Gets) = 3
    /\ Gets[1].outcome[1].status = 503
    /\ Gets[2].outcome[1].kind = "timeout"
    /\ Succeeds(Gets[3].outcome[1])
    /\ f_ret[1].html = Some([bytes |-> 1000, decoded |-> "utf-8"])
    /\ f_ret[1].error = None

(***************************************************************************)
(* Properties of the scraping modes.                                       *)
(***************************************************************************)
ModesOf(list) == {list[k] : k \in 1..Len(list)}

\* C30: for every mode and every phase from 1 on, is_mode_supported(mode,
\* phase) is true exactly when the mode is in get_supported_modes(phase):
\* ONE_PAGE from phase 1, INDEX_PAGE and HYBRID from phase 2.
C30_SupportedIffListed ==
    \A i \in 1..Len(mode_calls) :
        (mode_calls[i].fn = "is_mode_supported" /\ mode_calls[i].phase >= 1) =>
            /\ mode_calls[i].supported[1]
                   <=> mode_calls[i].mode[1] \in ModesOf(get_supported_modes(mode_calls[i].phase))
            /\ mode_calls[i].supported[1]
                   <=> \/ mode_calls[i].mode[1] = ONE_PAGE
                       \/ mode_calls[i].phase >= 2

\* What the code keeps of C30: from phase 1 on, is_mode_supported is true for
\* ONE_PAGE and for no other mode, and get_supported_modes lists ONE_PAGE in
\* phase 1 and the three modes from phase 2 on.
C30_OnePageOnly ==
    \A i \in 1..Len(mode_calls) :
        mode_calls[i].phase >= 1 =>
            /\ mode_calls[i].fn = "is_mode_supported" =>
                   (mode_calls[i].supported[1] <=> mode_calls[i].mode[1] = ONE_PAGE)
            /\ mode_calls[i].fn = "get_supported_modes" =>
                   mode_calls[i].modes[1]
                       = IF mode_calls[i].phase >= 2 THEN <<ONE_PAGE, INDEX_PAGE, HYBRID>>
                         ELSE <<ONE_PAGE>>

\* In phase 2 get_supported_modes has listed INDEX_PAGE and is_mode_supported
\* has answered False for it.
C30_ListedButUnsupported ==
    /\ Len(mode_calls) = 2
    /\ mode_calls[1].fn = "get_supported_modes"
    /\ mode_calls[1].phase = 2
    /\ INDEX_PAGE \in ModesOf(mode_calls[1].modes[1])
    /\ mode_calls[2].fn = "is_mode_supported"
    /\ mode_calls[2].mode = Some(INDEX_PAGE)
    /\ mode_calls[2].phase = 2
    /\ mode_calls[2].supported = Some(FALSE)

(***************************************************************************)
(* Properties of the chapters of a stored book.                            *)
(***************************************************************************)
\* The calls that stored a chapter.
StoredAdds == SelectSeq(st_adds, LAMBDA a : a.ok)

\* C29: after any sequence of create_book_with_metadata and add_chapter_to_book
\* calls on a book, chapters_count is the number of index entries, the index is
\* sorted by chapter id with no id repeated, and get_chapter_content(book, k)
\* returns the title and the content that were stored with chapter_index k.
C29_IndexConsistent ==
    /\ st_book # None =>
          /\ st_book[1].chapters_count = Len(st_book[1].chapters)
          /\ \A i, j \in 1..Len(st_book[1].chapters) :
                 i < j => st_book[1].chapters[i].id < st_book[1].chapters[j].id
    /\ st_read # None =>
          \A a \in 1..Len(StoredAdds) :
              StoredAdds[a].chapter_index = st_read[1].chapter_id =>
                  /\ st_read[1].result # None
                  /\ \E b \in 1..Len(StoredAdds) :
                         /\ StoredAdds[b].chapter_index = st_read[1].chapter_id
                         /\ StoredAdds[b].chapter_title = st_read[1].result[1].title
                         /\ StoredAdds[b].chapter_content = st_read[1].result[1].content

\* What the code keeps of C29: chapters_count is the number of index entries,
\* the index is in ascending order of id (ids may repeat), it has one entry
\* for every call that stored a chapter, and every entry names the file of its
\* id, which exists.
C29_CountAndOrder ==
    st_book # None =>
        /\ st_book[1].chapters_count = Len(st_book[1].chapters)
        /\ Len(st_book[1].chapters) = Len(StoredAdds)
        /\ \A i, j \in 1..Len(st_book[1].chapters) :
               i < j => st_book[1].chapters[i].id <= st_book[1].chapters[j].id
        /\ \A i \in 1..Len(st_book[1].chapters) :
               /\ st_book[1].chapters[i].file = ChapterFile(st_book[1].chapters[i].id)
               /\ st_book[1].chapters[i].file \in DOMAIN st_book[1].files

\* Chapter 2 alone was stored, as 'Two' with the text 'beta';
\* get_chapter_content(book, 2) has returned None.
C29_GapLosesChapter ==
    /\ st_book # None
    /\ Len(StoredAdds) = 1
    /\ StoredAdds[1].chapter_index = 2
    /\ StoredAdds[1].chapter_title = "Two"
    /\ StoredAdds[1].chapter_content = "beta"
    /\ st_read = Some([chapter_id |-> 2, result |-> None])

\* Chapter 1 was stored twice: the index holds two entries with id 1 and
\* chapters_count is 2.
C29_RepeatedId ==
    /\ st_book # None
    /\ Len(st_book[1].chapters) = 2
    /\ st_book[1].chapters[1].id = 1
    /\ st_book[1].chapters[2].id = 1
    /\ st_book[1].chapters_count = 2

====
